---- MODULE Spec2Model ----
(***************************************************************************)
(* Widget composition tree, layout allocators, render pass, regions and    *)
(* ESC/P serializer of the escp-layout crate.  Coordinates and sizes are   *)
(* u16; text is a sequence of Unicode code points whose byte length is its *)
(* UTF-8 length; the output is a sequence of bytes.                        *)
(***************************************************************************)
EXTENDS Integers, Sequences, FiniteSets, TLC

VARIABLES slots,   \* the widgets currently owned by the caller (by value)
          res,     \* what the last operation was given and what it returned
          column,  \* a Column<WIDTH, HEIGHT> allocator
          row,     \* a Row<WIDTH, HEIGHT> allocator
          granted, \* per allocator: how many areas it has returned, and their total size
          page_builder, \* the cells of a PageBuilder the caller owns
          doc_builder   \* a DocumentBuilder, and the Document once it is built

vars == <<slots, res, column, row, granted, page_builder, doc_builder>>

----------------------------------------------------------------------------
(* Bounds of the model *)

\* most widget nodes (containers and leaves) alive at one time
MaxNodes == 4
\* most children one container may hold
MaxChildren == 2
\* most area() calls made on one allocator
MaxAreas == 4
\* pages added to one document
MaxPages == 2

----------------------------------------------------------------------------
(* Program constants *)

U16_MAX == 65535
PAGE_WIDTH == 160
PAGE_HEIGHT == 51
NONE == 0
BOLD == 1
UNDERLINE == 2
LF == 10
CR == 13
QUESTION_MARK == 63
SPACE == 32
FF == 12

----------------------------------------------------------------------------
(* Results *)

Ok == [kind |-> "Ok"]

\* a panic ends the call: nothing is returned and the receiver is unchanged
Panic(msg) == [kind |-> "Panic", message |-> msg]

IntegerOverflow(operation) ==
    [kind |-> "IntegerOverflow", operation |-> operation]

ChildExceedsParent(pw, ph, cw, ch, position) ==
    [kind |-> "ChildExceedsParent", parent_width |-> pw, parent_height |-> ph,
     child_width |-> cw, child_height |-> ch, position |-> position]

OverlappingChildren(b1, b2) ==
    [kind |-> "OverlappingChildren", child1_bounds |-> b1, child2_bounds |-> b2]

OutOfBounds(position, bounds) ==
    [kind |-> "OutOfBounds", position |-> position, bounds |-> bounds]

InsufficientSpace(available, required, layout_type) ==
    [kind |-> "InsufficientSpace", available |-> available,
     required |-> required, layout_type |-> layout_type]

TextExceedsWidth(text_length, widget_width) ==
    [kind |-> "TextExceedsWidth", text_length |-> text_length,
     widget_width |-> widget_width]

\* LayoutError::RegionOutOfBounds
RegionOutOfBounds(x, y, width, height) ==
    [kind |-> "RegionOutOfBounds", x |-> x, y |-> y, width |-> width,
     height |-> height]

\* LayoutError::InvalidDimensions
InvalidDimensions(width, height) ==
    [kind |-> "InvalidDimensions", width |-> width, height |-> height]

\* LayoutError::InvalidSplit
InvalidSplit(parent_size, split_size) ==
    [kind |-> "InvalidSplit", parent_size |-> parent_size,
     split_size |-> split_size]

----------------------------------------------------------------------------
(* u16 arithmetic *)

\* u16::checked_add: None on overflow
checked_add(a, b) ==
    IF a + b > U16_MAX THEN [some |-> FALSE, v |-> 0]
                       ELSE [some |-> TRUE, v |-> a + b]

\* the `+` operator on u16 when the sum does not fit: a build with overflow
\* checks panics, a build without wraps around
wrapping_add(a, b) == (a + b) % (U16_MAX + 1)

overflows(a, b) == a + b > U16_MAX

\* `as u16` of a usize
as_u16(n) == n % (U16_MAX + 1)

\* u16::saturating_add
saturating_add(a, b) == IF a + b > U16_MAX THEN U16_MAX ELSE a + b

\* u16::saturating_sub
saturating_sub(a, b) == IF a < b THEN 0 ELSE a - b

----------------------------------------------------------------------------
(* Widgets *)

None == [some |-> FALSE, s |-> <<>>]
Some(s) == [some |-> TRUE, s |-> s]

NoWidget == [kind |-> "NoWidget"]

\* Rect::<WIDTH, HEIGHT>::new(); debug is whether debug assertions are compiled in
RectNew(w, h, debug) ==
    IF debug /\ ~(w > 0 /\ h > 0)
    THEN [result |-> Panic("Rect dimensions must be non-zero"), widget |-> NoWidget]
    ELSE [result |-> Ok,
          widget |-> [kind |-> "Rect", width |-> w, height |-> h,
                      children |-> <<>>, text |-> None, style |-> NONE]]

\* Label::<WIDTH, HEIGHT>::new()
LabelNew(w, h, debug) ==
    IF debug /\ ~(h = 1)
    THEN [result |-> Panic("Label HEIGHT must be 1"), widget |-> NoWidget]
    ELSE [result |-> Ok,
          widget |-> [kind |-> "Label", width |-> w, height |-> h,
                      children |-> <<>>, text |-> None, style |-> NONE]]

\* WidgetNode::new
WidgetNode(widget, position) ==
    [position |-> position, widget |-> widget,
     width |-> widget.width, height |-> widget.height]

----------------------------------------------------------------------------
(* Rect::add_child *)

overlaps_wrong_edge(existing, position, child_right, child_bottom, existing_right, existing_bottom) ==
    /\ child_right > existing_right
    /\ position[1] < existing_right
    /\ child_bottom > existing.position[2]
    /\ position[2] < existing_bottom

overlaps_inclusive(existing, position, child_right, child_bottom, existing_right, existing_bottom) ==
    /\ child_right >= existing.position[1]
    /\ position[1] <= existing_right
    /\ child_bottom >= existing.position[2]
    /\ position[2] <= existing_bottom

\* the strict-inequality AABB test of one existing child against the new box
overlaps(existing, position, child_right, child_bottom, existing_right, existing_bottom) ==
    /\ child_right > existing.position[1]
    /\ position[1] < existing_right
    /\ child_bottom > existing.position[2]
    /\ position[2] < existing_bottom

\* the loop over the existing children, from child i on: the first error, or Ok
CheckExisting_accept(children, i, position, cw, ch, child_right, child_bottom) == Ok

RECURSIVE CheckExisting(_, _, _, _, _, _, _)
CheckExisting(children, i, position, cw, ch, child_right, child_bottom) ==
    IF i > Len(children) THEN Ok
    ELSE LET existing == children[i]
             er == checked_add(existing.position[1], existing.width)
             eb == checked_add(existing.position[2], existing.height)
         IN IF ~er.some THEN IntegerOverflow(<<"existing child bounds calculation">>)
            ELSE IF ~eb.some THEN IntegerOverflow(<<"existing child bounds calculation">>)
            ELSE IF overlaps(existing, position, child_right, child_bottom, er.v, eb.v)
                 THEN OverlappingChildren(
                          <<existing.position[1], existing.position[2],
                            existing.width, existing.height>>,
                          <<position[1], position[2], cw, ch>>)
            ELSE CheckExisting(children, i + 1, position, cw, ch, child_right, child_bottom)

\* the checked additions at the head of add_child: the first that overflows
check_overflow(position, child_width, child_height) ==
    IF ~checked_add(position[1], child_width).some
    THEN IntegerOverflow(<<"child position.x (", position[1],
                           ") + width (", child_width, ")">>)
    ELSE IF ~checked_add(position[2], child_height).some
    THEN IntegerOverflow(<<"child position.y (", position[2],
                           ") + height (", child_height, ")">>)
    ELSE Ok

\* the containment test of add_child
check_bounds(self, position, child_width, child_height) ==
    IF position[1] + child_width > self.width \/ position[2] + child_height > self.height
    THEN ChildExceedsParent(self.width, self.height, child_width, child_height, position)
    ELSE Ok

add_child_checks_swapped(self, widget, position) ==
    LET o == check_overflow(position, widget.width, widget.height)
    IN IF o.kind # "Ok" THEN o
       ELSE LET r == CheckExisting(self.children, 1, position, widget.width, widget.height,
                                   position[1] + widget.width, position[2] + widget.height)
            IN IF r.kind # "Ok" THEN r
               ELSE check_bounds(self, position, widget.width, widget.height)

\* the validation of add_child, in the order of the code: what it returns
add_child_checks(self, widget, position) ==
    LET o == check_overflow(position, widget.width, widget.height)
    IN IF o.kind # "Ok" THEN o
       ELSE LET b == check_bounds(self, position, widget.width, widget.height)
            IN IF b.kind # "Ok" THEN b
               ELSE CheckExisting(self.children, 1, position, widget.width, widget.height,
                                  position[1] + widget.width, position[2] + widget.height)

push_front(children, node) == <<node>> \o children

\* Vec::push
push(children, node) == Append(children, node)

add_child_partial(self, widget, position) ==
    LET r == add_child_checks(self, widget, position)
    IN IF r.kind \in {"Ok", "OverlappingChildren"}
       THEN [result |-> r,
             self |-> [self EXCEPT !.children = push(@, WidgetNode(widget, position))]]
       ELSE [result |-> r, self |-> self]

\* Rect::add_child: the result and the Rect afterwards
add_child(self, widget, position) ==
    LET r == add_child_checks(self, widget, position)
    IN IF r.kind # "Ok"
       THEN [result |-> r, self |-> self]
       ELSE [result |-> Ok,
             self |-> [self EXCEPT !.children = push(@, WidgetNode(widget, position))]]

----------------------------------------------------------------------------
(* Strings: a String is the sequence of its chars (code points) *)

\* str::len: the length in bytes, each char counting char::len_utf8 bytes
RECURSIVE str_len(_)
str_len(s) ==
    LET len_utf8(c) ==
            IF c < 128 THEN 1 ELSE IF c < 2048 THEN 2 ELSE IF c < 65536 THEN 3 ELSE 4
    IN IF s = <<>> THEN 0 ELSE len_utf8(Head(s)) + str_len(Tail(s))

\* str::contains of a pattern string
contains(s, pat) ==
    \E i \in 0..(Len(s) - Len(pat)) : \A j \in 1..Len(pat) : s[i + j] = pat[j]

----------------------------------------------------------------------------
(* StyleFlags *)

\* bitwise or of two-bit flag sets
bit_or(a, b) ==
    (IF a % 2 = 1 \/ b % 2 = 1 THEN 1 ELSE 0)
    + (IF (a \div 2) % 2 = 1 \/ (b \div 2) % 2 = 1 THEN 2 ELSE 0)

with_bold(style) == bit_or(style, BOLD)
with_underline(style) == bit_or(style, UNDERLINE)

----------------------------------------------------------------------------
(* Label *)

Label_add_text_ge(self, text) ==
    IF str_len(text) >= self.width \/ contains(text, <<LF>>)
    THEN [result |-> TextExceedsWidth(as_u16(str_len(text)), self.width),
          label |-> NoWidget]
    ELSE [result |-> Ok, label |-> [self EXCEPT !.text = Some(text)]]

\* Label::add_text: consumes the label; the result and the label returned
Label_add_text(self, text) ==
    IF str_len(text) > self.width
    THEN [result |-> TextExceedsWidth(as_u16(str_len(text)), self.width),
          label |-> NoWidget]
    ELSE IF contains(text, <<LF>>) \/ contains(text, <<CR, LF>>)
    THEN [result |-> TextExceedsWidth(as_u16(str_len(text)), self.width),
          label |-> NoWidget]
    ELSE [result |-> Ok, label |-> [self EXCEPT !.text = Some(text)]]

\* Label::bold
Label_bold(self) == [self EXCEPT !.style = with_bold(@)]

\* Label::underline
Label_underline(self) == [self EXCEPT !.style = with_underline(@)]

----------------------------------------------------------------------------
(* Cell and PageBuilder.  The grid is 160 x 51 cells; it is represented by  *)
(* the cells that differ from Cell::EMPTY.                                  *)

EMPTY == [character |-> SPACE, style |-> NONE]

CellNew_verbatim(ch, style) == [character |-> ch % 256, style |-> style]

\* Cell::new
CellNew(ch, style) ==
    [character |-> IF ch < 128 /\ ch >= 32 /\ ch <= 126 THEN ch ELSE QUESTION_MARK,
     style |-> style]

\* Page::builder()
PageBuilderNew == << >>

\* Page::get_cell: the cell at (x, y) of a grid (Some(cell) is written as
\* the cell), None outside the 160 x 51 grid
GetCell(cells, x, y) ==
    IF x < PAGE_WIDTH /\ y < PAGE_HEIGHT
    THEN (IF <<x, y>> \in DOMAIN cells THEN cells[<<x, y>>] ELSE EMPTY)
    ELSE None

\* self.cells[y][x] = cell
SetCell(cells, x, y, cell) ==
    IF cell = EMPTY
    THEN [c \in (DOMAIN cells) \ {<<x, y>>} |-> cells[c]]
    ELSE [c \in (DOMAIN cells) \cup {<<x, y>>} |->
             IF c = <<x, y>> THEN cell ELSE cells[c]]

write_at_clamped(cells, x, y, ch, style) ==
    IF y < PAGE_HEIGHT
    THEN SetCell(cells, IF x < PAGE_WIDTH THEN x ELSE PAGE_WIDTH - 1, y,
                 CellNew(ch, style))
    ELSE cells

\* PageBuilder::write_at
write_at(cells, x, y, ch, style) ==
    IF x < PAGE_WIDTH /\ y < PAGE_HEIGHT
    THEN SetCell(cells, x, y, CellNew(ch, style))
    ELSE cells

\* PageBuilder::write_str: the loop over the chars, from char i on with
\* the cursor current_x
write_str(cells, x, y, text, style) ==
    LET RECURSIVE loop(_, _, _)
        loop(c, current_x, i) ==
            IF i > Len(text) THEN c
            ELSE IF current_x >= PAGE_WIDTH THEN c
            ELSE loop(write_at(c, current_x, y, text[i], style), current_x + 1, i + 1)
    IN loop(cells, x, 1)

----------------------------------------------------------------------------
(* RenderContext.  A context is the page builder's cells, the clip bounds,  *)
(* and the record of the write calls made through it so far.                *)

\* RenderContext::new
RenderContextNew(cells) ==
    [cells |-> cells, clip_bounds |-> <<0, 0, PAGE_WIDTH, PAGE_HEIGHT>>,
     writes |-> <<>>]

write_styled_checks_end(context, text, position, style, path) ==
    IF position[1] + Len(text) > context.clip_bounds[3]
       \/ position[2] >= context.clip_bounds[4]
    THEN [result |-> OutOfBounds(position, context.clip_bounds),
          context |-> [context EXCEPT !.writes = Append(@,
                          [path |-> path, position |-> position, text |-> text,
                           style |-> style, ok |-> FALSE])]]
    ELSE [result |-> Ok,
          context |-> [context EXCEPT
                          !.cells = write_str(@, position[1], position[2], text, style),
                          !.writes = Append(@,
                          [path |-> path, position |-> position, text |-> text,
                           style |-> style, ok |-> TRUE])]]

\* RenderContext::write_styled by the leaf at `path`
write_styled(context, text, position, style, path) ==
    IF position[1] >= context.clip_bounds[3] \/ position[2] >= context.clip_bounds[4]
    THEN [result |-> OutOfBounds(position, context.clip_bounds),
          context |-> [context EXCEPT !.writes = Append(@,
                          [path |-> path, position |-> position, text |-> text,
                           style |-> style, ok |-> FALSE])]]
    ELSE [result |-> Ok,
          context |-> [context EXCEPT
                          !.cells = write_str(@, position[1], position[2], text, style),
                          !.writes = Append(@,
                          [path |-> path, position |-> position, text |-> text,
                           style |-> style, ok |-> TRUE])]]

\* RenderContext::write_text
write_text(context, text, position, path) ==
    write_styled(context, text, position, NONE, path)

----------------------------------------------------------------------------
(* Widget::render_to *)

Label_render_to_always(self, context, position, path) ==
    write_styled(context, self.text.s, position, self.style, path)

\* Label::render_to
Label_render_to(self, context, position, path) ==
    IF self.text.some
    THEN write_styled(context, self.text.s, position, self.style, path)
    ELSE [result |-> Ok, context |-> context]

child_pos_relative(position, child) == child.position

\* a child's absolute position: the parent's plus the child's relative one
child_pos(position, child) ==
    <<wrapping_add(position[1], child.position[1]),
      wrapping_add(position[2], child.position[2])>>

RECURSIVE render_to(_, _, _, _, _)
RECURSIVE Rect_render_from(_, _, _, _, _, _)

RECURSIVE Rect_render_from_best_effort(_, _, _, _, _, _)
Rect_render_from_best_effort(self, i, context, position, path, checks) ==
    IF i > Len(self.children) THEN [result |-> Ok, context |-> context]
    ELSE LET child == self.children[i]
             r == render_to(child.widget, context, child_pos(position, child),
                            Append(path, i), checks)
             rest == Rect_render_from_best_effort(self, i + 1, r.context, position,
                                                  path, checks)
         IN IF r.result.kind # "Ok"
            THEN [result |-> r.result, context |-> rest.context]
            ELSE rest

\* the loop of Rect::render_to from child i on; checks is whether the build
\* has overflow checks
Rect_render_from(self, i, context, position, path, checks) ==
    IF i > Len(self.children) THEN [result |-> Ok, context |-> context]
    ELSE LET child == self.children[i]
         IN IF checks /\ (overflows(position[1], child.position[1])
                          \/ overflows(position[2], child.position[2]))
            THEN [result |-> Panic("attempt to add with overflow"), context |-> context]
            ELSE LET r == render_to(child.widget, context, child_pos(position, child),
                                    Append(path, i), checks)
                 IN IF r.result.kind # "Ok" THEN r
                    ELSE Rect_render_from(self, i + 1, r.context, position, path, checks)

\* Rect::render_to
Rect_render_to(self, context, position, path, checks) ==
    Rect_render_from(self, 1, context, position, path, checks)

\* WidgetDyn::render_to_dyn: dispatch on the concrete widget type
render_to(widget, context, position, path, checks) ==
    IF widget.kind = "Label"
    THEN Label_render_to(widget, context, position, path)
    ELSE Rect_render_to(widget, context, position, path, checks)

PageBuilder_render_rollback(cells, widget, checks) ==
    LET r == render_to(widget, RenderContextNew(cells), <<0, 0>>, <<>>, checks)
    IN IF r.result.kind = "Ok" THEN r
       ELSE [r EXCEPT !.context.cells = cells]

\* PageBuilder::render
PageBuilder_render(cells, widget, checks) ==
    render_to(widget, RenderContextNew(cells), <<0, 0>>, <<>>, checks)

----------------------------------------------------------------------------
(* Layout allocators *)

\* u16 subtraction: a - b when it fits, else what the build does
wrapping_sub(a, b) == (a - b) % (U16_MAX + 1)

\* Column::<WIDTH, HEIGHT>::new()
ColumnNew(w, h) == [WIDTH |-> w, HEIGHT |-> h, current_y |-> 0]

\* Row::<WIDTH, HEIGHT>::new()
RowNew(w, h) == [WIDTH |-> w, HEIGHT |-> h, current_x |-> 0]

\* Column::area::<H>(): the result, the column afterwards, and on success
\* the container and its position.  checks: the build has overflow checks;
\* debug: it has debug assertions.
Column_area(self, H, checks, debug) ==
    LET failed(result) == [result |-> result, self |-> self,
                           widget |-> NoWidget, position |-> <<0, 0>>]
    IN IF checks /\ overflows(self.current_y, H)
       THEN failed(Panic("attempt to add with overflow"))
       ELSE IF wrapping_add(self.current_y, H) > self.HEIGHT
       THEN IF checks /\ self.current_y > self.HEIGHT
            THEN failed(Panic("attempt to subtract with overflow"))
            ELSE failed(InsufficientSpace(wrapping_sub(self.HEIGHT, self.current_y),
                                          H, "Column"))
       ELSE LET box_widget == RectNew(self.WIDTH, H, debug)
            IN IF box_widget.result.kind # "Ok"
               THEN failed(box_widget.result)
               ELSE [result |-> Ok,
                     self |-> [self EXCEPT !.current_y = wrapping_add(@, H)],
                     widget |-> box_widget.widget,
                     position |-> <<0, self.current_y>>]

\* Row::area::<W>()
Row_area(self, W, checks, debug) ==
    LET failed(result) == [result |-> result, self |-> self,
                           widget |-> NoWidget, position |-> <<0, 0>>]
    IN IF checks /\ overflows(self.current_x, W)
       THEN failed(Panic("attempt to add with overflow"))
       ELSE IF wrapping_add(self.current_x, W) > self.WIDTH
       THEN IF checks /\ self.current_x > self.WIDTH
            THEN failed(Panic("attempt to subtract with overflow"))
            ELSE failed(InsufficientSpace(wrapping_sub(self.WIDTH, self.current_x),
                                          W, "Row"))
       ELSE LET rect_widget == RectNew(W, self.HEIGHT, debug)
            IN IF rect_widget.result.kind # "Ok"
               THEN failed(rect_widget.result)
               ELSE [result |-> Ok,
                     self |-> [self EXCEPT !.current_x = wrapping_add(@, W)],
                     widget |-> rect_widget.widget,
                     position |-> <<self.current_x, 0>>]

\* Stack::<WIDTH, HEIGHT>::new()
StackNew(w, h) == [WIDTH |-> w, HEIGHT |-> h]

\* Stack::area()
Stack_area(self, debug) ==
    LET rect_widget == RectNew(self.WIDTH, self.HEIGHT, debug)
    IN [result |-> rect_widget.result, widget |-> rect_widget.widget,
        position |-> <<0, 0>>]

----------------------------------------------------------------------------
(* ESC/P serializer.  A byte stream is a sequence of numbers 0..255.       *)

ESC_RESET == <<27, 64>>
SI_CONDENSED == <<15>>
ESC_BOLD_ON == <<27, 69>>
ESC_BOLD_OFF == <<27, 70>>
ESC_UNDERLINE_ON == <<27, 45, 1>>
ESC_UNDERLINE_OFF == <<27, 45, 0>>

\* StyleFlags::bold
bold(style) == style % 2 = 1

\* StyleFlags::underline
underline(style) == (style \div 2) % 2 = 1

\* RenderState::new
RenderStateNew == [bold |-> FALSE, underline |-> FALSE]

transition_to_always_on(self, target) ==
    LET b == IF bold(target) THEN ESC_BOLD_ON
             ELSE IF self.bold THEN ESC_BOLD_OFF ELSE <<>>
        u == IF underline(target) THEN ESC_UNDERLINE_ON
             ELSE IF self.underline THEN ESC_UNDERLINE_OFF ELSE <<>>
    IN [state |-> [bold |-> bold(target), underline |-> underline(target)],
        output |-> b \o u]

\* RenderState::transition_to: the new state and the bytes it emits
transition_to(self, target) ==
    LET target_bold == bold(target)
        target_underline == underline(target)
        b == IF target_bold # self.bold
             THEN (IF target_bold THEN ESC_BOLD_ON ELSE ESC_BOLD_OFF)
             ELSE <<>>
        u == IF target_underline # self.underline
             THEN (IF target_underline THEN ESC_UNDERLINE_ON ELSE ESC_UNDERLINE_OFF)
             ELSE <<>>
    IN [state |-> [bold |-> target_bold, underline |-> target_underline],
        output |-> b \o u]

reset_nothing(self) == [state |-> self, output |-> <<>>]

\* RenderState::reset: the new state and the bytes it emits
reset(self) ==
    [state |-> RenderStateNew,
     output |-> (IF self.bold THEN ESC_BOLD_OFF ELSE <<>>)
                \o (IF self.underline THEN ESC_UNDERLINE_OFF ELSE <<>>)]

\* F applied to the value of v: v is computed before F uses it
Bind(v, F(_)) == CHOOSE r \in {F(x) : x \in {v}} : TRUE

\* the loop of render_line over the cells lo .. hi - 1 of row y, in order:
\* the first half of the cells, then the second half from the state the
\* first half left
RECURSIVE render_line_from(_, _, _, _, _)
render_line_from(cells, y, lo, hi, state) ==
    IF lo >= hi THEN [state |-> state, output |-> <<>>]
    ELSE IF hi = lo + 1
    THEN LET cell == GetCell(cells, lo, y)
             t == transition_to(state, cell.style)
         IN [state |-> t.state, output |-> t.output \o <<cell.character>>]
    ELSE LET mid == (lo + hi) \div 2
         IN Bind(render_line_from(cells, y, lo, mid, state), LAMBDA first :
            Bind(render_line_from(cells, y, mid, hi, first.state), LAMBDA second :
            [state |-> second.state, output |-> first.output \o second.output]))

\* render_line
render_line(cells, y, state) == render_line_from(cells, y, 0, PAGE_WIDTH, state)

render_row_reset_first(cells, y, state) ==
    Bind(render_line(cells, y, state), LAMBDA line :
    LET r == reset(line.state)
    IN [state |-> r.state, output |-> line.output \o r.output \o <<CR, LF>>])

\* one iteration of the loop of render_page: the line, CR LF, then the reset
render_row(cells, y, state) ==
    Bind(render_line(cells, y, state), LAMBDA line :
    LET r == reset(line.state)
    IN [state |-> r.state, output |-> line.output \o <<CR, LF>> \o r.output])

\* the loop of render_page over the rows lo .. hi - 1, in order; `states`
\* records the style state at the start of each row
RECURSIVE render_page_from(_, _, _, _)
render_page_from(cells, lo, hi, state) ==
    IF lo >= hi THEN [state |-> state, output |-> <<>>, states |-> <<>>]
    ELSE IF hi = lo + 1
    THEN LET r == render_row(cells, lo, state)
         IN [state |-> r.state, output |-> r.output, states |-> <<state>>]
    ELSE LET mid == (lo + hi) \div 2
         IN Bind(render_page_from(cells, lo, mid, state), LAMBDA first :
            Bind(render_page_from(cells, mid, hi, first.state), LAMBDA second :
            [state |-> second.state, output |-> first.output \o second.output,
             states |-> first.states \o second.states]))

\* render_page
render_page(page) ==
    Bind(render_page_from(page, 0, PAGE_HEIGHT, RenderStateNew), LAMBDA r :
    [output |-> r.output, states |-> Append(r.states, r.state)])

\* PageBuilder::build
PageBuilder_build(cells) == cells

\* Document::builder()
DocumentBuilderNew == <<>>

\* DocumentBuilder::add_page
add_page(pages, page) == Append(pages, page)

\* DocumentBuilder::build
DocumentBuilder_build(pages) == pages

RECURSIVE render_pages_separated(_, _)
render_pages_separated(pages, i) ==
    IF i > Len(pages) THEN [output |-> <<>>, states |-> <<>>]
    ELSE Bind(render_page(pages[i]), LAMBDA p :
         Bind(render_pages_separated(pages, i + 1), LAMBDA rest :
            [output |-> p.output \o (IF i < Len(pages) THEN <<FF>> ELSE <<>>)
                            \o rest.output,
             states |-> <<p.states>> \o rest.states]))

RECURSIVE render_pages_reinit(_, _)
render_pages_reinit(pages, i) ==
    IF i > Len(pages) THEN [output |-> <<>>, states |-> <<>>]
    ELSE Bind(render_page(pages[i]), LAMBDA p :
         Bind(render_pages_reinit(pages, i + 1), LAMBDA rest :
            [output |-> (IF i > 1 THEN SI_CONDENSED ELSE <<>>) \o p.output
                            \o <<FF>> \o rest.output,
             states |-> <<p.states>> \o rest.states]))

\* the loop of render_document from page i on
RECURSIVE render_pages_from(_, _)
render_pages_from(pages, i) ==
    IF i > Len(pages) THEN [output |-> <<>>, states |-> <<>>]
    ELSE Bind(render_page(pages[i]), LAMBDA p :
         Bind(render_pages_from(pages, i + 1), LAMBDA rest :
            [output |-> p.output \o <<FF>> \o rest.output,
             states |-> <<p.states>> \o rest.states]))

\* render_document: the bytes, and for each page the style states at its
\* row starts and at its end
render_document(doc) ==
    Bind(render_pages_from(doc, 1), LAMBDA r :
    [output |-> ESC_RESET \o SI_CONDENSED \o r.output, states |-> r.states])

\* Document::render
Document_render(doc) == render_document(doc)

----------------------------------------------------------------------------
(* Region *)

\* the value of a Result that is an Err
NoRegion == [kind |-> "NoRegion"]

\* Region { x, y, width, height }
Region(x, y, width, height) ==
    [kind |-> "Region", x |-> x, y |-> y, width |-> width, height |-> height]

Region_new_wrapping(x, y, width, height) ==
    IF width = 0 \/ height = 0
    THEN [result |-> InvalidDimensions(width, height), region |-> NoRegion]
    ELSE IF wrapping_add(x, width) > PAGE_WIDTH \/ wrapping_add(y, height) > PAGE_HEIGHT
    THEN [result |-> RegionOutOfBounds(x, y, width, height), region |-> NoRegion]
    ELSE [result |-> Ok, region |-> Region(x, y, width, height)]

\* Region::new
Region_new(x, y, width, height) ==
    IF width = 0 \/ height = 0
    THEN [result |-> InvalidDimensions(width, height), region |-> NoRegion]
    ELSE LET end_x == checked_add(x, width)
             end_y == checked_add(y, height)
         IN IF ~end_x.some
            THEN [result |-> RegionOutOfBounds(x, y, width, height),
                  region |-> NoRegion]
            ELSE IF ~end_y.some
            THEN [result |-> RegionOutOfBounds(x, y, width, height),
                  region |-> NoRegion]
            ELSE IF end_x.v > PAGE_WIDTH \/ end_y.v > PAGE_HEIGHT
            THEN [result |-> RegionOutOfBounds(x, y, width, height),
                  region |-> NoRegion]
            ELSE [result |-> Ok, region |-> Region(x, y, width, height)]

Region_split_vertical_strict(self, top_height) ==
    IF top_height >= self.height
    THEN [result |-> InvalidSplit(self.height, top_height),
          first |-> NoRegion, second |-> NoRegion]
    ELSE [result |-> Ok,
          first |-> Region(self.x, self.y, self.width, top_height),
          second |-> Region(self.x, self.y + top_height, self.width,
                            self.height - top_height)]

\* Region::split_vertical: (top, bottom).  top_height <= height here, so
\* neither the subtraction nor the addition leaves the u16 range of a
\* region with y + height <= 51
Region_split_vertical(self, top_height) ==
    IF top_height > self.height
    THEN [result |-> InvalidSplit(self.height, top_height),
          first |-> NoRegion, second |-> NoRegion]
    ELSE [result |-> Ok,
          first |-> Region(self.x, self.y, self.width, top_height),
          second |-> Region(self.x, self.y + top_height, self.width,
                            self.height - top_height)]

\* Region::split_horizontal: (left, right)
Region_split_horizontal(self, left_width) ==
    IF left_width > self.width
    THEN [result |-> InvalidSplit(self.width, left_width),
          first |-> NoRegion, second |-> NoRegion]
    ELSE [result |-> Ok,
          first |-> Region(self.x, self.y, left_width, self.height),
          second |-> Region(self.x + left_width, self.y,
                            self.width - left_width, self.height)]

Region_with_padding_wrapping(self, top, right, bottom, left) ==
    LET horizontal_padding == wrapping_add(left, right)
        vertical_padding == wrapping_add(top, bottom)
    IN IF horizontal_padding >= self.width \/ vertical_padding >= self.height
       THEN [result |-> InvalidDimensions(
                            saturating_sub(self.width, horizontal_padding),
                            saturating_sub(self.height, vertical_padding)),
             region |-> NoRegion]
       ELSE [result |-> Ok,
             region |-> Region(wrapping_add(self.x, left), wrapping_add(self.y, top),
                               self.width - horizontal_padding,
                               self.height - vertical_padding)]

\* Region::with_padding.  On the success branch left < width and
\* top < height, so x + left and y + top stay in the u16 range
Region_with_padding(self, top, right, bottom, left) ==
    LET horizontal_padding == saturating_add(left, right)
        vertical_padding == saturating_add(top, bottom)
    IN IF horizontal_padding >= self.width \/ vertical_padding >= self.height
       THEN [result |-> InvalidDimensions(
                            saturating_sub(self.width, horizontal_padding),
                            saturating_sub(self.height, vertical_padding)),
             region |-> NoRegion]
       ELSE [result |-> Ok,
             region |-> Region(self.x + left, self.y + top,
                               self.width - horizontal_padding,
                               self.height - vertical_padding)]

\* PageBuilder::fill_region: the outer loop over the rows from row y on,
\* the inner loop over the columns of a row from column x on
fill_region(cells, region, ch, style) ==
    LET end_x == region.x + region.width
        end_y == region.y + region.height
        RECURSIVE fill_row(_, _, _)
        fill_row(c, x, y) ==
            IF x >= end_x THEN c
            ELSE fill_row(write_at(c, x, y, ch, style), x + 1, y)
        RECURSIVE fill_rows(_, _)
        fill_rows(c, y) ==
            IF y >= end_y THEN c
            ELSE fill_rows(fill_row(c, region.x, y), y + 1)
    IN fill_rows(cells, region.y)

----------------------------------------------------------------------------
(* Region widgets (module widgets): rendered into a region with write_at *)

\* for (i, ch) in chars.take(max_chars).enumerate()
\*     { page.write_at(x + i as u16, y, ch, style) }
\* x + i stays below 160 + the number of chars
write_chars(cells, x, y, chars, max_chars, style) ==
    LET RECURSIVE loop(_, _)
        loop(c, i) ==
            IF i > Len(chars) \/ i > max_chars THEN c
            ELSE loop(write_at(c, x + as_u16(i - 1), y, chars[i], style), i + 1)
    IN loop(cells, 1)

\* str::lines: a line ends with LF or CR LF, the CR of CR LF being dropped;
\* the last line needs no line ending
lines(text) ==
    LET strip_cr(line) ==
            IF line # <<>> /\ line[Len(line)] = CR
            THEN SubSeq(line, 1, Len(line) - 1)
            ELSE line
        RECURSIVE loop(_, _)
        loop(i, current) ==
            IF i > Len(text) THEN (IF current = <<>> THEN <<>> ELSE <<current>>)
            ELSE IF text[i] = LF THEN <<strip_cr(current)>> \o loop(i + 1, <<>>)
            ELSE loop(i + 1, Append(current, text[i]))
    IN loop(1, <<>>)

\* str::split_whitespace: the words between the chars that
\* char::is_whitespace accepts (the code points with White_Space)
split_whitespace(text) ==
    LET White_Space ==
            {9, 10, 11, 12, 13, 32, 133, 160, 5760, 8232, 8233, 8239, 8287, 12288}
                \cup 8192..8202
        RECURSIVE loop(_, _)
        loop(i, current) ==
            IF i > Len(text) THEN (IF current = <<>> THEN <<>> ELSE <<current>>)
            ELSE IF text[i] \in White_Space
            THEN (IF current = <<>> THEN <<>> ELSE <<current>>) \o loop(i + 1, <<>>)
            ELSE loop(i + 1, Append(current, text[i]))
    IN loop(1, <<>>)

\* widgets::Label::new
widgets_Label_new(text) == [kind |-> "widgets::Label", text |-> text, style |-> NONE]

\* widgets::Label::with_style
widgets_Label_with_style(self, style) == [self EXCEPT !.style = style]

\* <widgets::Label as Widget>::render: the grid afterwards
widgets_Label_render(self, cells, region) ==
    IF region.width = 0 \/ region.height = 0 THEN cells
    ELSE LET len == as_u16(str_len(self.text))
             max_chars == IF region.width < len THEN region.width ELSE len
         IN write_chars(cells, region.x, region.y, self.text, max_chars, self.style)

\* TextBlock::new
TextBlock_new(text_lines) == [kind |-> "TextBlock", lines |-> text_lines]

\* TextBlock::from_text
TextBlock_from_text(text) == [kind |-> "TextBlock", lines |-> lines(text)]

\* <TextBlock as Widget>::render: line i on row i of the region, cut at the
\* region's width and height
TextBlock_render(self, cells, region) ==
    LET RECURSIVE loop(_, _)
        loop(c, i) ==
            IF i > Len(self.lines) \/ as_u16(i - 1) >= region.height THEN c
            ELSE LET line == self.lines[i]
                     len == as_u16(str_len(line))
                     max_chars == IF region.width < len THEN region.width ELSE len
                 IN loop(write_chars(c, region.x, region.y + as_u16(i - 1),
                                     line, max_chars, NONE),
                         i + 1)
    IN IF region.width = 0 \/ region.height = 0 THEN cells ELSE loop(cells, 1)

\* KeyValueList::new: the separator is ": "
KeyValueList_new(entries) ==
    [kind |-> "KeyValueList", entries |-> entries, separator |-> <<58, SPACE>>]

\* KeyValueList::with_separator
KeyValueList_with_separator(self, separator) == [self EXCEPT !.separator = separator]

\* <KeyValueList as Widget>::render: entry i as key, separator, value on row
\* i of the region
KeyValueList_render(self, cells, region) ==
    LET RECURSIVE loop(_, _)
        loop(c, i) ==
            IF i > Len(self.entries) \/ as_u16(i - 1) >= region.height THEN c
            ELSE LET line == self.entries[i][1] \o self.separator
                                 \o self.entries[i][2]
                     len == as_u16(str_len(line))
                     max_chars == IF region.width < len THEN region.width ELSE len
                 IN loop(write_chars(c, region.x, region.y + as_u16(i - 1),
                                     line, max_chars, NONE),
                         i + 1)
    IN IF region.width = 0 \/ region.height = 0 THEN cells ELSE loop(cells, 1)

\* Paragraph::new
Paragraph_new(text) == [kind |-> "Paragraph", text |-> text, style |-> NONE]

\* Paragraph::with_style
Paragraph_with_style(self, style) == [self EXCEPT !.style = style]

\* wrap_text: words are joined with one space while the line's bytes fit in
\* max_width; a word of more bytes is cut into chunks of max_width chars
wrap_text(text, max_width) ==
    LET words == split_whitespace(text)
        RECURSIVE chunks(_)
        chunks(chars) ==
            IF chars = <<>> THEN <<>>
            ELSE IF Len(chars) <= max_width THEN <<chars>>
            ELSE <<SubSeq(chars, 1, max_width)>>
                     \o chunks(SubSeq(chars, max_width + 1, Len(chars)))
        RECURSIVE loop(_, _, _)
        loop(i, wrapped, current_line) ==
            IF i > Len(words)
            THEN (IF current_line # <<>> THEN Append(wrapped, current_line)
                  ELSE wrapped)
            ELSE LET word == words[i]
                 IN IF str_len(word) > max_width
                    THEN loop(i + 1,
                              (IF current_line # <<>>
                               THEN Append(wrapped, current_line)
                               ELSE wrapped) \o chunks(word),
                              <<>>)
                    ELSE LET would_exceed ==
                                 IF current_line = <<>>
                                 THEN str_len(word) > max_width
                                 ELSE str_len(current_line) + 1 + str_len(word)
                                          > max_width
                             new_line == would_exceed /\ current_line # <<>>
                             kept == IF new_line THEN <<>> ELSE current_line
                         IN loop(i + 1,
                                 IF new_line THEN Append(wrapped, current_line)
                                 ELSE wrapped,
                                 (IF kept # <<>> THEN Append(kept, SPACE) ELSE kept)
                                     \o word)
    IN IF max_width = 0 THEN <<>> ELSE loop(1, <<>>, <<>>)

\* <Paragraph as Widget>::render: wrapped line i on row i of the region
Paragraph_render(self, cells, region) ==
    LET wrapped_lines == wrap_text(self.text, region.width)
        RECURSIVE loop(_, _)
        loop(c, i) ==
            IF i > Len(wrapped_lines) \/ as_u16(i - 1) >= region.height THEN c
            ELSE loop(write_chars(c, region.x, region.y + as_u16(i - 1),
                                  wrapped_lines[i], Len(wrapped_lines[i]),
                                  self.style),
                      i + 1)
    IN IF region.width = 0 \/ region.height = 0 THEN cells ELSE loop(cells, 1)

\* Table::new; a column is ColumnDef { name, width }
Table_new(columns, rows) == [kind |-> "Table", columns |-> columns, rows |-> rows]

\* <Table as Widget>::render: the header row in bold, then the data rows;
\* the result (Ok, or the panic of col_x += width) and the grid afterwards.
\* checks: the build has overflow checks
Table_render(self, cells, region, checks) ==
    LET columns == self.columns
        right == region.x + region.width
        \* the loop over the columns of one row, from the i-th column on with
        \* the cursor col_x: column i prints texts[i]
        RECURSIVE row_loop(_, _, _, _, _, _)
        row_loop(c, texts, i, col_x, y, style) ==
            IF i > Len(columns) \/ col_x >= right
            THEN [result |-> Ok, cells |-> c]
            ELSE LET room == saturating_sub(right, col_x)
                     max_chars == IF columns[i].width < room THEN columns[i].width
                                  ELSE room
                     written == write_chars(c, col_x, y, texts[i], max_chars, style)
                 IN IF checks /\ overflows(col_x, columns[i].width)
                    THEN [result |-> Panic("attempt to add with overflow"),
                          cells |-> written]
                    ELSE row_loop(written, texts, i + 1,
                                  wrapping_add(col_x, columns[i].width), y, style)
        \* the loop over the data rows, from the r-th row on
        RECURSIVE rows_loop(_, _)
        rows_loop(c, r) ==
            IF r > Len(self.rows) THEN [result |-> Ok, cells |-> c]
            ELSE LET y == region.y + 1 + as_u16(r - 1)
                     row_texts == [i \in 1..Len(columns) |->
                                     IF i <= Len(self.rows[r]) THEN self.rows[r][i]
                                     ELSE <<>>]
                 IN IF y >= region.y + region.height
                    THEN [result |-> Ok, cells |-> c]
                    ELSE LET done == row_loop(c, row_texts, 1, region.x, y, NONE)
                         IN IF done.result.kind # "Ok" THEN done
                            ELSE rows_loop(done.cells, r + 1)
        names == [i \in 1..Len(columns) |-> columns[i].name]
    IN IF region.height = 0 THEN [result |-> Ok, cells |-> cells]
       ELSE LET header == row_loop(cells, names, 1, region.x, region.y, BOLD)
            IN IF header.result.kind # "Ok" THEN header
               ELSE rows_loop(header.cells, 1)

\* ASCIIBox::new
ASCIIBox_new(content) == [kind |-> "ASCIIBox", title |-> None, content |-> content]

\* ASCIIBox::with_title
ASCIIBox_with_title(self, title) == [self EXCEPT !.title = Some(title)]

\* Widget::render of a region widget: the result (Ok, or the panic of an
\* overflow in a table) and the grid afterwards
RECURSIVE Widget_render(_, _, _, _)

\* <ASCIIBox as Widget>::render: the corners '+', the borders '-' and '|',
\* the title from x + 2 on, then the content in the region padded by 1
ASCIIBox_render(self, cells, region, checks) ==
    LET x == region.x
        y == region.y
        width == region.width
        height == region.height
        corners == write_at(write_at(write_at(write_at(cells, x, y, 43, NONE),
                                              x + width - 1, y, 43, NONE),
                                     x, y + height - 1, 43, NONE),
                            x + width - 1, y + height - 1, 43, NONE)
        RECURSIVE horizontal(_, _)
        horizontal(c, dx) ==
            IF dx >= width - 1 THEN c
            ELSE horizontal(write_at(write_at(c, x + dx, y, 45, NONE),
                                     x + dx, y + height - 1, 45, NONE),
                            dx + 1)
        RECURSIVE vertical(_, _)
        vertical(c, dy) ==
            IF dy >= height - 1 THEN c
            ELSE vertical(write_at(write_at(c, x, y + dy, 124, NONE),
                                   x + width - 1, y + dy, 124, NONE),
                          dy + 1)
        borders == vertical(horizontal(corners, 1), 1)
        titled == IF self.title.some
                  THEN write_chars(borders, x + 2, y, self.title.s,
                                   saturating_sub(width, 4), NONE)
                  ELSE borders
        inner_region == Region_with_padding(region, 1, 1, 1, 1)
    IN IF region.width < 3 \/ region.height < 3 THEN [result |-> Ok, cells |-> cells]
       ELSE IF inner_region.result.kind = "Ok"
       THEN Widget_render(self.content, titled, inner_region.region, checks)
       ELSE [result |-> Ok, cells |-> titled]

Widget_render(widget, cells, region, checks) ==
    IF widget.kind = "widgets::Label"
    THEN [result |-> Ok, cells |-> widgets_Label_render(widget, cells, region)]
    ELSE IF widget.kind = "TextBlock"
    THEN [result |-> Ok, cells |-> TextBlock_render(widget, cells, region)]
    ELSE IF widget.kind = "KeyValueList"
    THEN [result |-> Ok, cells |-> KeyValueList_render(widget, cells, region)]
    ELSE IF widget.kind = "Paragraph"
    THEN [result |-> Ok, cells |-> Paragraph_render(widget, cells, region)]
    ELSE IF widget.kind = "Table"
    THEN Table_render(widget, cells, region, checks)
    ELSE ASCIIBox_render(widget, cells, region, checks)

\* PageBuilder::render_widget
render_widget(cells, region, widget, checks) ==
    Widget_render(widget, cells, region, checks)

----------------------------------------------------------------------------
(* Inputs *)

Slots == {1, 2}

\* Rect<W, H> types the caller instantiates
RectDims == {<<80, 30>>, <<40, 15>>, <<200, 60>>}

\* Label<W, H> types the caller instantiates for a tree
LabelDims == {<<20, 1>>}

\* Label<W, H> types the caller instantiates when it only builds labels
LabelOnlyDims == {<<3, 1>>, <<10, 1>>, <<3, 2>>}

\* texts the caller gives to labels when it only builds labels:
\* "", "abc", "abcd", "a\n", "\r\n", "\r", two and one U+00E9, and ten and
\* eleven ASCII letters
Texts == {<<>>, <<97, 98, 99>>, <<97, 98, 99, 100>>, <<97, LF>>, <<CR, LF>>, <<CR>>,
          <<233, 233>>, <<233>>,
          <<97, 98, 99, 100, 101, 102, 103, 104, 105, 106>>,
          <<97, 98, 99, 100, 101, 102, 103, 104, 105, 106, 107>>}

\* sizes the caller requests from an allocator
AreaSizes == {1, 10, 20, 30, 65535}

\* positions the caller passes to add_child
Positions == {<<0, 0>>, <<20, 0>>, <<10, 0>>, <<0, 1>>, <<5, 2>>,
              <<170, 55>>, <<0, 65535>>, <<65535, 65535>>}

\* texts the caller gives to labels that go into a tree
TreeTexts == {<<97, 98, 99>>}

\* the number of nodes of a widget tree
RECURSIVE NodeCount(_)
NodeCount(w) ==
    LET RECURSIVE children_from(_)
        children_from(i) ==
            IF i > Len(w.children) THEN 0
            ELSE NodeCount(w.children[i].widget) + children_from(i + 1)
    IN IF w.kind = "NoWidget" THEN 0 ELSE 1 + children_from(1)

----------------------------------------------------------------------------
(* Operations *)

\* the nodes of all the widgets the caller owns
NodesAlive == NodeCount(slots[1]) + NodeCount(slots[2])

Init ==
    /\ slots = [s \in Slots |-> NoWidget]
    /\ res = [op |-> "init"]
    /\ column = ColumnNew(80, 30)
    /\ row = RowNew(80, 30)
    /\ granted = [column |-> [areas |-> 0, total |-> 0],
                  row |-> [areas |-> 0, total |-> 0]]
    /\ page_builder = PageBuilderNew
    /\ doc_builder = [pages |-> DocumentBuilderNew, built |-> FALSE]

\* let r = Rect::<W, H>::new();
NewRect(s, d, debug) ==
    /\ slots[s] = NoWidget
    /\ NodesAlive < MaxNodes
    /\ LET r == RectNew(d[1], d[2], debug)
       IN /\ slots' = [slots EXCEPT ![s] = r.widget]
          /\ res' = [op |-> "Rect::new", result |-> r.result]
    /\ UNCHANGED <<column, row, granted, page_builder, doc_builder>>

\* let l = Label::<W, 1>::new();
NewLabel(s, d, debug) ==
    /\ slots[s] = NoWidget
    /\ NodesAlive < MaxNodes
    /\ LET r == LabelNew(d[1], d[2], debug)
       IN /\ slots' = [slots EXCEPT ![s] = r.widget]
          /\ res' = [op |-> "Label::new", result |-> r.result]
    /\ UNCHANGED <<column, row, granted, page_builder, doc_builder>>

\* parent.add_child(child, position): the child is moved into the call, so
\* the caller no longer owns it whatever the result
AddChild(p, c, position) ==
    /\ p # c
    /\ slots[p].kind = "Rect"
    /\ slots[c] # NoWidget
    /\ LET r == add_child(slots[p], slots[c], position)
       IN /\ r.result.kind = "Ok" =>
                /\ Len(slots[p].children) < MaxChildren
                /\ NodeCount(slots[p]) + NodeCount(slots[c]) <= MaxNodes
          /\ slots' = [slots EXCEPT ![p] = r.self, ![c] = NoWidget]
          /\ res' = [op |-> "add_child", result |-> r.result, parent |-> p,
                     position |-> position, before |-> slots[p],
                     child_width |-> slots[c].width,
                     child_height |-> slots[c].height]
    /\ UNCHANGED <<column, row, granted, page_builder, doc_builder>>

\* drop(widget)
Drop(s) ==
    /\ slots[s] # NoWidget
    /\ slots' = [slots EXCEPT ![s] = NoWidget]
    /\ res' = [op |-> "drop"]
    /\ UNCHANGED <<column, row, granted, page_builder, doc_builder>>

\* let l = l.add_text(text): the label is moved into the call and comes
\* back only on success
AddText(s, text) ==
    /\ slots[s].kind = "Label"
    /\ LET r == Label_add_text(slots[s], text)
       IN /\ slots' = [slots EXCEPT ![s] = r.label]
          /\ res' = [op |-> "add_text", result |-> r.result, slot |-> s,
                     text |-> text, width |-> slots[s].width, before |-> slots[s]]
    /\ UNCHANGED <<column, row, granted, page_builder, doc_builder>>

\* let l = l.bold();
Bold(s) ==
    /\ slots[s].kind = "Label"
    /\ slots' = [slots EXCEPT ![s] = Label_bold(@)]
    /\ res' = [op |-> "bold"]
    /\ UNCHANGED <<column, row, granted, page_builder, doc_builder>>

\* let l = l.underline();
Underline(s) ==
    /\ slots[s].kind = "Label"
    /\ slots' = [slots EXCEPT ![s] = Label_underline(@)]
    /\ res' = [op |-> "underline"]
    /\ UNCHANGED <<column, row, granted, page_builder, doc_builder>>

\* let mut page = Page::builder(); page.render(&widget)
Render(s, checks) ==
    /\ slots[s] # NoWidget
    /\ LET r == PageBuilder_render(PageBuilderNew, slots[s], checks)
       IN res' = [op |-> "render", result |-> r.result, slot |-> s,
                  cells |-> r.context.cells, writes |-> r.context.writes]
    /\ UNCHANGED <<slots, column, row, granted, page_builder, doc_builder>>

Next ==
    \/ \E s \in Slots, d \in RectDims, debug \in BOOLEAN : NewRect(s, d, debug)
    \/ \E s \in Slots, t \in TreeTexts : AddText(s, t)
    \/ \E s \in Slots, checks \in BOOLEAN : Render(s, checks)
    \/ \E s \in Slots, d \in LabelDims, debug \in BOOLEAN : NewLabel(s, d, debug)
    \/ \E p \in Slots, c \in Slots, pos \in Positions : AddChild(p, c, pos)
    \/ \E s \in Slots : Drop(s)

Spec == Init /\ [][Next]_vars

----------------------------------------------------------------------------
(* Building labels only *)

NextLabel ==
    \/ \E d \in LabelOnlyDims, debug \in BOOLEAN : NewLabel(1, d, debug)
    \/ \E t \in Texts : AddText(1, t)
    \/ Bold(1)
    \/ Underline(1)
    \/ Drop(1)

SpecLabel == Init /\ [][NextLabel]_vars

----------------------------------------------------------------------------
(* Allocating areas *)

\* the ghost record of an allocator after a call that returned `result`
Granted(g, result, size) ==
    IF result.kind = "Ok"
    THEN [areas |-> g.areas + 1, total |-> g.total + size]
    ELSE g

\* let (rect, position) = column.area::<H>()?; the container is dropped
ColumnArea(h, checks, debug) ==
    LET r == Column_area(column, h, checks, debug)
    IN /\ r.result.kind = "Ok" => granted.column.areas < MaxAreas
       /\ column' = r.self
       /\ granted' = [granted EXCEPT !.column = Granted(@, r.result, h)]
       /\ res' = [op |-> "Column::area", result |-> r.result, required |-> h,
                  before |-> column, granted_before |-> granted.column,
                  widget |-> r.widget, position |-> r.position]
       /\ UNCHANGED <<slots, row, page_builder, doc_builder>>

\* let (rect, position) = row.area::<W>()?; the container is dropped
RowArea(w, checks, debug) ==
    LET r == Row_area(row, w, checks, debug)
    IN /\ r.result.kind = "Ok" => granted.row.areas < MaxAreas
       /\ row' = r.self
       /\ granted' = [granted EXCEPT !.row = Granted(@, r.result, w)]
       /\ res' = [op |-> "Row::area", result |-> r.result, required |-> w,
                  before |-> row, granted_before |-> granted.row,
                  widget |-> r.widget, position |-> r.position]
       /\ UNCHANGED <<slots, column, page_builder, doc_builder>>

NextLayout ==
    \/ \E h \in AreaSizes, checks \in BOOLEAN, debug \in BOOLEAN :
          ColumnArea(h, checks, debug)
    \/ \E w \in AreaSizes, checks \in BOOLEAN, debug \in BOOLEAN :
          RowArea(w, checks, debug)

SpecLayout == Init /\ [][NextLayout]_vars

----------------------------------------------------------------------------
(* Filling a container with allocated areas *)

\* heights the caller requests from the column it fills a container with
ColumnFillSizes == {0, 10, 65535}

\* widths the caller requests from the row it fills a container with
RowFillSizes == {40, 65535}

\* Stack<W, H> types the caller instantiates
StackDims == {<<80, 30>>, <<0, 30>>}

\* let mut root = Rect::<80, 30>::new();
NewContainer(s, debug) ==
    /\ slots[s] = NoWidget
    /\ LET r == RectNew(column.WIDTH, column.HEIGHT, debug)
       IN /\ slots' = [slots EXCEPT ![s] = r.widget]
          /\ res' = [op |-> "Rect::new", result |-> r.result]
    /\ UNCHANGED <<column, row, granted, page_builder, doc_builder>>

\* let (rect, position) = column.area::<H>()?; root.add_child(rect, position),
\* root being the container in slot 1
ColumnFill(h, checks, debug) ==
    LET r == Column_area(column, h, checks, debug)
        a == add_child(slots[1], r.widget, r.position)
    IN /\ slots[1] # NoWidget
       /\ r.result.kind = "Ok" => granted.column.areas < MaxAreas
       /\ column' = r.self
       /\ granted' = [granted EXCEPT !.column = Granted(@, r.result, h)]
       /\ slots' = IF r.result.kind = "Ok"
                   THEN [slots EXCEPT ![1] = a.self] ELSE slots
       /\ res' = [op |-> "column_fill", area |-> r.result,
                  result |-> IF r.result.kind = "Ok" THEN a.result ELSE r.result,
                  required |-> h, widget |-> r.widget, position |-> r.position,
                  before |-> slots[1]]
       /\ UNCHANGED <<row, page_builder, doc_builder>>

\* let (rect, position) = row.area::<W>()?; root.add_child(rect, position),
\* root being the container in slot 2
RowFill(w, checks, debug) ==
    LET r == Row_area(row, w, checks, debug)
        a == add_child(slots[2], r.widget, r.position)
    IN /\ slots[2] # NoWidget
       /\ r.result.kind = "Ok" => granted.row.areas < MaxAreas
       /\ row' = r.self
       /\ granted' = [granted EXCEPT !.row = Granted(@, r.result, w)]
       /\ slots' = IF r.result.kind = "Ok"
                   THEN [slots EXCEPT ![2] = a.self] ELSE slots
       /\ res' = [op |-> "row_fill", area |-> r.result,
                  result |-> IF r.result.kind = "Ok" THEN a.result ELSE r.result,
                  required |-> w, widget |-> r.widget, position |-> r.position,
                  before |-> slots[2]]
       /\ UNCHANGED <<column, page_builder, doc_builder>>

\* let (rect, position) = Stack::<W, H>::new().area(); the container is dropped
StackArea(d, debug) ==
    LET r == Stack_area(StackNew(d[1], d[2]), debug)
    IN /\ res' = [op |-> "Stack::area", area |-> r.result, result |-> r.result,
                  widget |-> r.widget, position |-> r.position]
       /\ UNCHANGED <<slots, column, row, granted, page_builder, doc_builder>>

NextFill ==
    \/ \E s \in Slots, debug \in BOOLEAN : NewContainer(s, debug)
    \/ \E h \in ColumnFillSizes, checks \in BOOLEAN, debug \in BOOLEAN :
          ColumnFill(h, checks, debug)
    \/ \E w \in RowFillSizes, checks \in BOOLEAN, debug \in BOOLEAN :
          RowFill(w, checks, debug)
    \/ \E d \in StackDims, debug \in BOOLEAN : StackArea(d, debug)

SpecFill == Init /\ [][NextFill]_vars

----------------------------------------------------------------------------
(* Writing through a render context *)

\* positions a widget passes to the context: the four corners of the page,
\* the first column and row outside it, and the largest coordinates
ContextPositions == {<<0, 0>>, <<158, 0>>, <<159, 50>>, <<160, 0>>, <<0, 51>>,
                     <<159, 51>>, <<65535, 65535>>}

\* texts a widget passes to the context: "", "abc", and U+00E9 "~"
ContextTexts == {<<>>, <<97, 98, 99>>, <<233, 126>>}

\* styles a widget passes to the context
ContextStyles == {BOLD, 3}

\* page.render(&w) where w.render_to calls context.write_text(text, position)
ContextWriteText(text, position) ==
    /\ LET r == write_text(RenderContextNew(page_builder), text, position, <<>>)
       IN /\ page_builder' = r.context.cells
          /\ res' = [op |-> "write_text", result |-> r.result, text |-> text,
                     position |-> position, style |-> NONE, before |-> page_builder]
    /\ UNCHANGED <<slots, column, row, granted, doc_builder>>

\* page.render(&w) where w.render_to calls
\* context.write_styled(text, position, style)
ContextWriteStyled(text, position, style) ==
    /\ LET r == write_styled(RenderContextNew(page_builder), text, position,
                             style, <<>>)
       IN /\ page_builder' = r.context.cells
          /\ res' = [op |-> "write_styled", result |-> r.result, text |-> text,
                     position |-> position, style |-> style, before |-> page_builder]
    /\ UNCHANGED <<slots, column, row, granted, doc_builder>>

NextContext ==
    \/ \E t \in ContextTexts, pos \in ContextPositions : ContextWriteText(t, pos)
    \/ \E t \in ContextTexts, pos \in ContextPositions, st \in ContextStyles :
          ContextWriteStyled(t, pos, st)

SpecContext == Init /\ [][NextContext]_vars

----------------------------------------------------------------------------
(* Building and serializing documents *)

\* the write_str calls of the caller: "ABCDE" bold and underlined up to the
\* last column of row 0
DocStrs == {[x |-> 155, y |-> 0, text |-> <<65, 66, 67, 68, 69>>, style |-> 3]}

\* the trees the caller renders onto a page: a Rect<160, 51> with the
\* labels "ABCDE" bold and underlined at (155, 0), up to the last column;
\* "AB" bold and underlined at (155, 1), "x" underlined at (157, 1) and
\* "DE" bold and underlined at (158, 1); "FG" bold at (0, 2)
DocTrees ==
    LET \* Label::<W, 1>::new().add_text(text)?
        label(w, text) == Label_add_text(LabelNew(w, 1, TRUE).widget, text).label
        abcde == Label_underline(Label_bold(label(5, <<65, 66, 67, 68, 69>>)))
        ab == Label_underline(Label_bold(label(2, <<65, 66>>)))
        x == Label_underline(label(1, <<120>>))
        de == Label_underline(Label_bold(label(2, <<68, 69>>)))
        fg == Label_bold(label(2, <<70, 71>>))
        root == RectNew(PAGE_WIDTH, PAGE_HEIGHT, TRUE).widget
        a == add_child(root, abcde, <<155, 0>>).self
        b == add_child(a, ab, <<155, 1>>).self
        c == add_child(b, x, <<157, 1>>).self
        d == add_child(c, de, <<158, 1>>).self
    IN {add_child(d, fg, <<0, 2>>).self}

\* page.write_str(x, y, text, style)
WriteStr(x, y, text, style) ==
    /\ page_builder' = write_str(page_builder, x, y, text, style)
    /\ res' = [op |-> "write_str", x |-> x, y |-> y, text |-> text,
               style |-> style, before |-> page_builder]
    /\ UNCHANGED <<slots, column, row, granted, doc_builder>>

\* page.write_at(x, y, ch, style)
WriteAt(x, y, ch, style) ==
    /\ page_builder' = write_at(page_builder, x, y, ch, style)
    /\ res' = [op |-> "write_at", x |-> x, y |-> y, ch |-> ch,
               style |-> style, before |-> page_builder]
    /\ UNCHANGED <<slots, column, row, granted, doc_builder>>

\* page.render(&widget) of a tree the caller built
RenderTree(widget, checks) ==
    LET r == PageBuilder_render(page_builder, widget, checks)
    IN /\ page_builder' = r.context.cells
       /\ res' = [op |-> "render_tree", result |-> r.result, widget |-> widget,
                  before |-> page_builder, writes |-> r.context.writes]
       /\ UNCHANGED <<slots, column, row, granted, doc_builder>>

\* doc_builder.add_page(page_builder.build()); page_builder = Page::builder()
AddPage ==
    /\ ~doc_builder.built
    /\ Len(doc_builder.pages) < MaxPages
    /\ doc_builder' = [doc_builder EXCEPT
                        !.pages = add_page(@, PageBuilder_build(page_builder))]
    /\ page_builder' = PageBuilderNew
    /\ res' = [op |-> "add_page"]
    /\ UNCHANGED <<slots, column, row, granted>>

\* let document = doc_builder.build(): the document builder is moved into
\* the call
BuildDocument ==
    /\ ~doc_builder.built
    /\ doc_builder' = [doc_builder EXCEPT !.pages = DocumentBuilder_build(@),
                                          !.built = TRUE]
    /\ res' = [op |-> "build"]
    /\ UNCHANGED <<slots, column, row, granted, page_builder>>

\* document.render()
DocumentRender ==
    /\ doc_builder.built
    /\ LET r == Document_render(doc_builder.pages)
       IN res' = [op |-> "Document::render", output |-> r.output,
                  states |-> r.states]
    /\ UNCHANGED <<slots, column, row, granted, page_builder, doc_builder>>

NextDoc ==
    \/ \E w \in DocStrs : WriteStr(w.x, w.y, w.text, w.style)
    \/ \E t \in DocTrees, checks \in BOOLEAN : RenderTree(t, checks)
    \/ AddPage
    \/ BuildDocument
    \/ DocumentRender

SpecDoc == Init /\ [][NextDoc]_vars

----------------------------------------------------------------------------
(* Creating regions *)

\* the arguments the caller passes to Region::new
RegionArgs ==
    [x : {0, 1, 100, 159, 160, 65535}, width : {0, 1, 60, 61, 160, 161, 65535},
     y : {0, 1, 50, 51, 65535}, height : {0, 1, 50, 51, 52, 65535}]

\* let region = Region::new(x, y, width, height)
RegionNew(x, y, width, height) ==
    /\ LET r == Region_new(x, y, width, height)
       IN res' = [op |-> "Region::new", result |-> r.result, region |-> r.region,
                  x |-> x, y |-> y, width |-> width, height |-> height]
    /\ UNCHANGED <<slots, column, row, granted, page_builder, doc_builder>>

NextRegion ==
    \E a \in RegionArgs : RegionNew(a.x, a.y, a.width, a.height)

SpecRegion == Init /\ [][NextRegion]_vars

\* the sizes the caller splits at
SplitSizes == {0, 1, 30, 50, 51, 60, 61, 160, 161, 65535}

\* the paddings the caller asks for
Paddings == {0, 1, 30, 65535}

\* let region = Region::new(..)?; region.split_vertical(top_height)
SplitVertical(top_height) ==
    /\ res.op = "Region::new"
    /\ res.result = Ok
    /\ LET r == Region_split_vertical(res.region, top_height)
       IN res' = [op |-> "split_vertical", result |-> r.result,
                  before |-> res.region, size |-> top_height,
                  first |-> r.first, second |-> r.second]
    /\ UNCHANGED <<slots, column, row, granted, page_builder, doc_builder>>

\* let region = Region::new(..)?; region.split_horizontal(left_width)
SplitHorizontal(left_width) ==
    /\ res.op = "Region::new"
    /\ res.result = Ok
    /\ LET r == Region_split_horizontal(res.region, left_width)
       IN res' = [op |-> "split_horizontal", result |-> r.result,
                  before |-> res.region, size |-> left_width,
                  first |-> r.first, second |-> r.second]
    /\ UNCHANGED <<slots, column, row, granted, page_builder, doc_builder>>

\* let region = Region::new(..)?; region.with_padding(top, right, bottom, left)
WithPadding(top, right, bottom, left) ==
    /\ res.op = "Region::new"
    /\ res.result = Ok
    /\ LET r == Region_with_padding(res.region, top, right, bottom, left)
       IN res' = [op |-> "with_padding", result |-> r.result,
                  before |-> res.region, top |-> top, right |-> right,
                  bottom |-> bottom, left |-> left, region |-> r.region]
    /\ UNCHANGED <<slots, column, row, granted, page_builder, doc_builder>>

\* the regions the caller creates before it splits or pads them
ParentArgs == [x : {0, 100}, y : {0, 1}, width : {1, 60, 160}, height : {1, 50, 51}]

NextRegionOps ==
    \/ \E a \in ParentArgs : RegionNew(a.x, a.y, a.width, a.height)
    \/ \E h \in SplitSizes : SplitVertical(h)
    \/ \E w \in SplitSizes : SplitHorizontal(w)
    \/ \E t \in Paddings, r \in Paddings, b \in Paddings, l \in Paddings :
          WithPadding(t, r, b, l)

SpecRegionOps == Init /\ [][NextRegionOps]_vars

----------------------------------------------------------------------------
(* Rendering trees onto one page builder *)

\* Rect<W, H> types the caller instantiates for a tree it renders onto a
\* page that already has cells
PageRectDims == {<<200, 60>>}

\* positions the caller passes to add_child in such a tree
PagePositions == {<<0, 0>>, <<170, 55>>}

\* the write_at calls of the caller around the render: a bold 'X' at (1, 0)
PageChars == {[x |-> 1, y |-> 0, ch |-> 88, style |-> BOLD]}

\* page.render(&widget) on the page builder the caller keeps
RenderOnPage(s, checks) ==
    /\ slots[s] # NoWidget
    /\ LET r == PageBuilder_render(page_builder, slots[s], checks)
       IN /\ page_builder' = r.context.cells
          /\ res' = [op |-> "page.render", result |-> r.result, slot |-> s,
                     before |-> page_builder, writes |-> r.context.writes]
    /\ UNCHANGED <<slots, column, row, granted, doc_builder>>

\* let page = page_builder.build(); page_builder = Page::builder()
BuildPage ==
    /\ res' = [op |-> "build", page |-> PageBuilder_build(page_builder)]
    /\ page_builder' = PageBuilderNew
    /\ UNCHANGED <<slots, column, row, granted, doc_builder>>

NextPage ==
    \/ \E s \in Slots, d \in PageRectDims, debug \in BOOLEAN : NewRect(s, d, debug)
    \/ \E s \in Slots, d \in LabelDims, debug \in BOOLEAN : NewLabel(s, d, debug)
    \/ \E s \in Slots, t \in TreeTexts : AddText(s, t)
    \/ \E p \in Slots, c \in Slots, pos \in PagePositions : AddChild(p, c, pos)
    \/ \E s \in Slots : Drop(s)
    \/ \E s \in Slots, checks \in BOOLEAN : RenderOnPage(s, checks)
    \/ \E w \in PageChars : WriteAt(w.x, w.y, w.ch, w.style)
    \/ BuildPage

SpecPage == Init /\ [][NextPage]_vars

----------------------------------------------------------------------------
(* Writing cells and serializing the page *)

\* the write_at calls of the caller: ESC bold and 'A' at (0, 0), 'A' at
\* column 200, at row 51 and at (65535, 65535)
GridChars == {[x |-> 0, y |-> 0, ch |-> 27, style |-> BOLD],
              [x |-> 0, y |-> 0, ch |-> 65, style |-> NONE],
              [x |-> 200, y |-> 0, ch |-> 65, style |-> NONE],
              [x |-> 0, y |-> 51, ch |-> 65, style |-> NONE],
              [x |-> 65535, y |-> 65535, ch |-> 65, style |-> NONE]}

\* the write_str calls of the caller: LF, U+1F600, 'A' from (158, 50), and
\* "AB" from column 160 and in row 51
GridStrs == {[x |-> 158, y |-> 50, text |-> <<LF, 128512, 65>>, style |-> UNDERLINE],
             [x |-> 160, y |-> 0, text |-> <<65, 66>>, style |-> NONE],
             [x |-> 158, y |-> 51, text |-> <<65, 66>>, style |-> NONE]}

\* the fill_region calls of the caller: FF over Region::new(159, 0, 1, 2)
GridFills == {[region |-> Region_new(159, 0, 1, 2).region, ch |-> FF, style |-> NONE]}

\* page.fill_region(region, ch, style)
FillRegion(region, ch, style) ==
    /\ page_builder' = fill_region(page_builder, region, ch, style)
    /\ res' = [op |-> "fill_region", region |-> region, ch |-> ch,
               style |-> style, before |-> page_builder]
    /\ UNCHANGED <<slots, column, row, granted, doc_builder>>

\* let mut d = Document::builder(); d.add_page(page_builder.build());
\* d.build().render(); page_builder = Page::builder()
SerializePage ==
    /\ res' = [op |-> "serialize", page |-> PageBuilder_build(page_builder),
               output |-> Document_render(DocumentBuilder_build(
                              add_page(DocumentBuilderNew,
                                       PageBuilder_build(page_builder)))).output]
    /\ page_builder' = PageBuilderNew
    /\ UNCHANGED <<slots, column, row, granted, doc_builder>>

\* page.render_widget(region, &widget)
RenderWidget(region, widget, checks) ==
    LET r == render_widget(page_builder, region, widget, checks)
    IN /\ page_builder' = r.cells
       /\ res' = [op |-> "render_widget", result |-> r.result, region |-> region,
                  widget |-> widget, before |-> page_builder]
       /\ UNCHANGED <<slots, column, row, granted, doc_builder>>

NextGrid ==
    \/ \E w \in GridChars : WriteAt(w.x, w.y, w.ch, w.style)
    \/ \E w \in GridStrs : WriteStr(w.x, w.y, w.text, w.style)
    \/ \E f \in GridFills : FillRegion(f.region, f.ch, f.style)
    \/ ContextWriteStyled(<<233, 126>>, <<0, 0>>, 3)
    \/ \E checks \in BOOLEAN :
          RenderWidget(Region_new(0, 0, 2, 1).region,
                       widgets_Label_new(<<27, 233>>), checks)
    \/ SerializePage

SpecGrid == Init /\ [][NextGrid]_vars

----------------------------------------------------------------------------
(* Rendering region widgets *)

\* the render_widget calls of the caller.  Labels: "Hello, World!" in
\* (0, 0, 80, 1), "Hi" bold in (158, 50, 2, 1), "Hello" in (0, 0, 3, 1).
\* A text block "abc\r\nd\n\ne" in (0, 2, 2, 2).  A paragraph
\* "ab cdefgh i" underlined in (0, 5, 4, 2).  A key-value list k: v in
\* (0, 8, 3, 1).  A table with columns N (2), M (65535), Z (1) and the row
\* a, b in (100, 10, 60, 2).  A box titled "T" around the label "in" in
\* (10, 20, 5, 3).
WidgetCalls ==
    {[region |-> Region_new(0, 0, 80, 1).region,
      widget |-> widgets_Label_new(<<72, 101, 108, 108, 111, 44, 32,
                                     87, 111, 114, 108, 100, 33>>)],
     [region |-> Region_new(158, 50, 2, 1).region,
      widget |-> widgets_Label_with_style(widgets_Label_new(<<72, 105>>), BOLD)],
     [region |-> Region_new(0, 0, 3, 1).region,
      widget |-> widgets_Label_new(<<72, 101, 108, 108, 111>>)],
     [region |-> Region_new(0, 2, 2, 2).region,
      widget |-> TextBlock_from_text(<<97, 98, 99, CR, LF, 100, LF, LF, 101>>)],
     [region |-> Region_new(0, 5, 4, 2).region,
      widget |-> Paragraph_with_style(
                     Paragraph_new(<<97, 98, SPACE, 99, 100, 101, 102, 103, 104,
                                     SPACE, 105>>), UNDERLINE)],
     [region |-> Region_new(0, 8, 3, 1).region,
      widget |-> KeyValueList_new(<< <<(<<107>>), (<<118>>)>> >>)],
     [region |-> Region_new(100, 10, 60, 2).region,
      widget |-> Table_new(<<[name |-> <<78>>, width |-> 2],
                             [name |-> <<77>>, width |-> U16_MAX],
                             [name |-> <<90>>, width |-> 1]>>,
                           << <<(<<97>>), (<<98>>)>> >>)],
     [region |-> Region_new(10, 20, 5, 3).region,
      widget |-> ASCIIBox_with_title(
                     ASCIIBox_new(widgets_Label_new(<<105, 110>>)), <<84>>)]}

NextWidgets ==
    \/ \E c \in WidgetCalls, checks \in BOOLEAN :
          RenderWidget(c.region, c.widget, checks)
    \/ BuildPage

SpecWidgets == Init /\ [][NextWidgets]_vars

----------------------------------------------------------------------------
(* Properties of the widget tree *)

\* two boxes (x, y, w, h) intersect: strict inequality on both axes
BoxesIntersect(a, b) ==
    /\ a[1] < b[1] + b[3] /\ b[1] < a[1] + a[3]
    /\ a[2] < b[2] + b[4] /\ b[2] < a[2] + a[4]

BoxOf(node) == <<node.position[1], node.position[2], node.width, node.height>>

\* every child of every container of the tree fits it, and no two children
\* of one container intersect
RECURSIVE TreeFitsAndDisjoint(_)
TreeFitsAndDisjoint(w) ==
    w.kind = "Rect" =>
        /\ \A i \in 1..Len(w.children) :
              /\ w.children[i].position[1] + w.children[i].width <= w.width
              /\ w.children[i].position[2] + w.children[i].height <= w.height
              /\ w.children[i].width = w.children[i].widget.width
              /\ w.children[i].height = w.children[i].widget.height
              /\ TreeFitsAndDisjoint(w.children[i].widget)
        /\ \A i, j \in 1..Len(w.children) :
              i < j => ~BoxesIntersect(BoxOf(w.children[i]), BoxOf(w.children[j]))

\* C1: after any sequence of add_child calls, successful or failed, every
\* stored child lies inside its container (x+w <= W, y+h <= H) and no two
\* children of one container intersect
C1_ChildrenFitAndDisjoint == \A s \in Slots : TreeFitsAndDisjoint(slots[s])

\* a container holding two children has just rejected a third
C1_Witness ==
    /\ res.op = "add_child"
    /\ res.result.kind = "OverlappingChildren"
    /\ Len(slots[res.parent].children) = 2

AddChildErrors == {"IntegerOverflow", "ChildExceedsParent", "OverlappingChildren"}

\* C2: when add_child returns an error the container is exactly what it
\* was before the call: same children, same positions, same order
C2_FailedAddLeavesContainer ==
    res.op = "add_child" =>
        /\ res.result.kind \in AddChildErrors \cup {"Ok"}
        /\ res.result.kind \in AddChildErrors => slots[res.parent] = res.before

\* a container holding a child has rejected another that does not fit
C2_Witness ==
    /\ res.op = "add_child"
    /\ res.result.kind = "ChildExceedsParent"
    /\ Len(slots[res.parent].children) >= 1

\* the new child of the last add_child call as a box
NewBox == <<res.position[1], res.position[2], res.child_width, res.child_height>>

\* the new child of the last add_child call fits the parent
NewFits ==
    /\ res.position[1] + res.child_width <= U16_MAX
    /\ res.position[2] + res.child_height <= U16_MAX
    /\ res.position[1] + res.child_width <= res.before.width
    /\ res.position[2] + res.child_height <= res.before.height

\* some child stored before the last add_child call intersects the new one
NewIntersects ==
    \E i \in 1..Len(res.before.children) :
        BoxesIntersect(BoxOf(res.before.children[i]), NewBox)

\* C3: a child that fits the parent is rejected with OverlappingChildren
\* exactly when it intersects a stored child with strict inequality on both
\* axes, and accepted otherwise; sharing an edge is accepted
C3_OverlapIffStrictIntersection ==
    (res.op = "add_child" /\ NewFits) =>
        /\ res.result.kind = "OverlappingChildren" <=> NewIntersects
        /\ res.result.kind = "Ok" <=> ~NewIntersects

\* x-extents [0,20) and [20,40) on the same row: the second is accepted
C3_Witness ==
    /\ res.op = "add_child"
    /\ res.result.kind = "Ok"
    /\ res.position = <<20, 0>>
    /\ res.child_width = 20
    /\ Len(res.before.children) = 1
    /\ BoxOf(res.before.children[1]) = <<0, 0, 20, 1>>

\* C4: add_child reports the first violated check in the order overflow on
\* x, overflow on y, containment, overlap
C4_ChecksInOrder ==
    res.op = "add_child" =>
        IF res.position[1] + res.child_width > U16_MAX
        THEN /\ res.result.kind = "IntegerOverflow"
             /\ res.result.operation[1] = "child position.x ("
        ELSE IF res.position[2] + res.child_height > U16_MAX
        THEN /\ res.result.kind = "IntegerOverflow"
             /\ res.result.operation[1] = "child position.y ("
        ELSE IF ~NewFits
        THEN res.result.kind = "ChildExceedsParent"
        ELSE IF NewIntersects
        THEN res.result.kind = "OverlappingChildren"
        ELSE res.result.kind = "Ok"

\* a child that both sticks out of the parent and intersects a stored child
C4_Witness ==
    /\ res.op = "add_child"
    /\ res.result.kind = "ChildExceedsParent"
    /\ res.position[1] + res.child_width <= U16_MAX
    /\ NewIntersects

\* the node a path of child indices leads to
RECURSIVE NodeAt(_, _)
NodeAt(w, path) ==
    IF path = <<>> THEN w ELSE NodeAt(w.children[Head(path)].widget, Tail(path))

\* the sum of the relative positions along a path of child indices
RECURSIVE PathOffset(_, _)
PathOffset(w, path) ==
    IF path = <<>> THEN <<0, 0>>
    ELSE LET c == w.children[Head(path)]
             rest == PathOffset(c.widget, Tail(path))
         IN <<c.position[1] + rest[1], c.position[2] + rest[2]>>

\* C5: in page.render every leaf writes at the sum of the relative positions
\* of its ancestors and its own, at any depth
C5_CumulativePosition ==
    res.op = "render" =>
        /\ res.result.kind # "Panic"
        /\ \A k \in 1..Len(res.writes) :
              LET w == res.writes[k]
              IN /\ w.position = PathOffset(slots[res.slot], w.path)
                 /\ (w.ok /\ w.text # <<>>) =>
                        GetCell(res.cells, w.position[1], w.position[2])
                            = CellNew(w.text[1], w.style)

\* a leaf three containers deep, each level at a non-zero offset
C5_Witness ==
    /\ res.op = "render"
    /\ \E k \in 1..Len(res.writes) :
          LET w == res.writes[k]
          IN /\ Len(w.path) = 3
             /\ w.ok
             /\ w.position = <<35, 2>>
             /\ slots[res.slot].children[w.path[1]].position = <<5, 2>>

\* path p comes before path q in depth-first insertion order
LexLess(p, q) ==
    \E k \in 1..Len(p) :
        /\ k <= Len(q)
        /\ p[k] < q[k]
        /\ \A j \in 1..(k - 1) : p[j] = q[j]

\* the writes of the last render were made in depth-first insertion order
WritesInOrder ==
    \A i, j \in 1..Len(res.writes) :
        i < j => LexLess(res.writes[i].path, res.writes[j].path)

\* the last successful add_child kept the stored children in place, in order
AddKeepsOrder ==
    /\ Len(slots[res.parent].children) = Len(res.before.children) + 1
    /\ SubSeq(slots[res.parent].children, 1, Len(res.before.children))
          = res.before.children
    /\ slots[res.parent].children[Len(res.before.children) + 1].position = res.position

\* C6: children are rendered depth-first in insertion order, and a
\* successful add_child does not change the order of the stored children
C6_InsertionOrder ==
    /\ res.op = "render" => WritesInOrder
    /\ (res.op = "add_child" /\ res.result.kind = "Ok") => AddKeepsOrder

\* two subtrees of the root have both written
C6_Witness ==
    /\ res.op = "render"
    /\ Len(res.writes) = 2
    /\ Len(res.writes[1].path) = 2
    /\ res.writes[1].path[1] = 1
    /\ res.writes[2].path[1] = 2

\* some leaf of the tree has a text
RECURSIVE HasText(_)
HasText(w) ==
    IF w.kind = "Label" THEN w.text.some
    ELSE \E i \in 1..Len(w.children) : HasText(w.children[i].widget)

\* C10: a label without text writes no cell and does not fail, wherever it
\* is rendered, also outside the 160 x 51 page
C10_EmptyLabelRendersNothing ==
    res.op = "render" =>
        /\ \A k \in 1..Len(res.writes) :
              NodeAt(slots[res.slot], res.writes[k].path).text.some
        /\ ~HasText(slots[res.slot]) =>
              /\ res.result = Ok
              /\ res.cells = PageBuilderNew
              /\ res.writes = <<>>

\* a label without text rendered at (170, 55), outside the page
C10_Witness ==
    /\ res.op = "render"
    /\ res.result = Ok
    /\ slots[res.slot].kind = "Rect"
    /\ \E i \in 1..Len(slots[res.slot].children) :
          LET c == slots[res.slot].children[i]
          IN /\ c.position = <<170, 55>>
             /\ c.widget.kind = "Label"
             /\ ~c.widget.text.some

\* the paths of the labels that have a text, in depth-first insertion order
RECURSIVE TextLeaves(_, _)
RECURSIVE TextLeavesFrom(_, _, _)
TextLeavesFrom(w, i, path) ==
    IF i > Len(w.children) THEN <<>>
    ELSE TextLeaves(w.children[i].widget, Append(path, i))
             \o TextLeavesFrom(w, i + 1, path)
TextLeaves(w, path) ==
    IF w.kind = "Label"
    THEN (IF w.text.some THEN <<path>> ELSE <<>>)
    ELSE TextLeavesFrom(w, 1, path)

\* a position inside the 160 x 51 clip bounds
InsidePage(position) == position[1] < PAGE_WIDTH /\ position[2] < PAGE_HEIGHT

\* C12: page.render never returns OutOfBounds for a tree composed through the
\* tree API: every leaf write of a render starts inside the 160 x 51 page
C12_RenderNeverOutOfBounds ==
    res.op = "render" =>
        /\ res.result.kind # "OutOfBounds"
        /\ \A k \in 1..Len(res.writes) : InsidePage(res.writes[k].position)

\* the leaves with a text whose position, summed from the root, is outside
\* the page
FailingLeaves(root, leaves) ==
    {k \in 1..Len(leaves) : ~InsidePage(PathOffset(root, leaves[k]))}

\* the cells of write w: one row, from its start to the end of its text or
\* of the page
WrittenBy(w, c) ==
    /\ w.ok
    /\ c[2] = w.position[2]
    /\ c[1] >= w.position[1]
    /\ c[1] < w.position[1] + Len(w.text)

\* C13: page.render is fail-fast: it returns the error of the first leaf, in
\* depth-first insertion order, whose write fails, no later leaf is written,
\* and it returns success only if every leaf write succeeded
C13_FailFast ==
    res.op = "render" =>
        LET root == slots[res.slot]
            leaves == TextLeaves(root, <<>>)
            failing == FailingLeaves(root, leaves)
            last == IF failing = {} THEN Len(leaves)
                    ELSE CHOOSE f \in failing : \A g \in failing : f <= g
        IN /\ Len(res.writes) = last
           /\ \A k \in 1..last :
                 /\ res.writes[k].path = leaves[k]
                 /\ res.writes[k].ok = (k \notin failing)
           /\ \A c \in DOMAIN res.cells :
                 \E k \in 1..last : WrittenBy(res.writes[k], c)
           /\ res.result =
                 IF failing = {} THEN Ok
                 ELSE OutOfBounds(PathOffset(root, leaves[last]),
                                  <<0, 0, PAGE_WIDTH, PAGE_HEIGHT>>)

\* a root whose first leaf is outside the page and whose second leaf is
\* inside: the render fails at the first and the second is not written
C13_Witness ==
    /\ res.op = "render"
    /\ res.result.kind = "OutOfBounds"
    /\ Len(res.writes) = 1
    /\ Len(TextLeaves(slots[res.slot], <<>>)) = 2
    /\ InsidePage(PathOffset(slots[res.slot], TextLeaves(slots[res.slot], <<>>)[2]))

----------------------------------------------------------------------------
(* Properties of the render context *)

\* the cells of row y that a write of `text` starting at column x reaches
Reached(x, y, text) ==
    {<<x + i, y>> : i \in {j \in 0..(Len(text) - 1) : x + j < PAGE_WIDTH}}

\* C11: write_text and write_styled fail with OutOfBounds{position,
\* (0, 0, 160, 51)} exactly when position.x >= 160 or position.y >= 51, and
\* then no cell changes; otherwise they succeed whatever the length of the
\* text, character i goes to cell (x + i, y) while x + i < 160, the
\* characters after that are dropped and no other cell changes
C11_StartPositionOnly ==
    res.op \in {"write_text", "write_styled"} =>
        LET x == res.position[1]
            y == res.position[2]
            outside == x >= PAGE_WIDTH \/ y >= PAGE_HEIGHT
            reached == Reached(x, y, res.text)
        IN /\ res.op = "write_text" => res.style = NONE
           /\ outside =>
                 /\ res.result = OutOfBounds(res.position,
                                             <<0, 0, PAGE_WIDTH, PAGE_HEIGHT>>)
                 /\ page_builder = res.before
           /\ ~outside =>
                 /\ res.result = Ok
                 /\ \A c \in reached :
                       GetCell(page_builder, c[1], c[2])
                           = CellNew(res.text[c[1] - x + 1], res.style)
                 /\ \A c \in (DOMAIN page_builder \cup DOMAIN res.before) \ reached :
                       GetCell(page_builder, c[1], c[2])
                           = GetCell(res.before, c[1], c[2])
                 /\ \A c \in DOMAIN page_builder :
                       c[1] < PAGE_WIDTH /\ c[2] < PAGE_HEIGHT

\* "abc" written at (158, 0) over a page that has cells written: the write
\* succeeds, 'a' and 'b' are in columns 158 and 159 and 'c' is dropped
C11_Witness ==
    /\ res.op = "write_styled"
    /\ res.position = <<158, 0>>
    /\ res.text = <<97, 98, 99>>
    /\ res.result = Ok
    /\ res.before # PageBuilderNew
    /\ GetCell(page_builder, 159, 0) = CellNew(98, res.style)
    /\ GetCell(res.before, 159, 0) # CellNew(98, res.style)

----------------------------------------------------------------------------
(* Properties of the serializer.  They are stated on the bytes of the last  *)
(* Document::render, read the way a printer reads them: ESC (27) starts a   *)
(* control code, and a cell's character is never ESC, CR, LF or FF.         *)

\* the positions of byte b in a byte stream, in increasing order
PositionsOf(out, b) ==
    SelectSeq([i \in 1..Len(out) |-> i], LAMBDA i : out[i] = b)

\* the positions at which the control code `code` starts
CodePositions(out, code) ==
    {i \in 1..(Len(out) - Len(code) + 1) :
        out[i] = code[1] /\ SubSeq(out, i, i + Len(code) - 1) = code}

\* the bytes of page k: from after the init sequence or the previous form
\* feed up to, and without, its own form feed
Segment(out, ffs, k) ==
    SubSeq(out, IF k = 1 THEN Len(ESC_RESET) + Len(SI_CONDENSED) + 1
                ELSE ffs[k - 1] + 1,
           ffs[k] - 1)

\* the positions of a byte stream that do not belong to a control code
DataPositions(out) ==
    SelectSeq([i \in 1..Len(out) |-> i],
              LAMBDA i : /\ out[i] # 27
                         /\ ~(i > 1 /\ out[i - 1] = 27)
                         /\ ~(i > 2 /\ out[i - 2] = 27 /\ out[i - 1] = 45))

\* byte stream `seg` prints the cells of `cells`: without its control codes
\* it is, row after row, the 160 characters of the row, then CR LF
PrintsCells(seg, cells) ==
    LET data == DataPositions(seg)
    IN /\ Len(data) = PAGE_HEIGHT * (PAGE_WIDTH + 2)
       /\ \A y \in 0..(PAGE_HEIGHT - 1) :
             /\ \A x \in 0..(PAGE_WIDTH - 1) :
                   seg[data[y * (PAGE_WIDTH + 2) + x + 1]]
                       = GetCell(cells, x, y).character
             /\ seg[data[y * (PAGE_WIDTH + 2) + PAGE_WIDTH + 1]] = CR
             /\ seg[data[y * (PAGE_WIDTH + 2) + PAGE_WIDTH + 2]] = LF

\* C15: the output is the init bytes 1B 40 0F once, at the start, then for
\* each page in the order it was added that page's bytes and one 0C; 0C
\* occurs nowhere else, and an empty document renders to 1B 40 0F
C15_DocumentStructure ==
    res.op = "Document::render" =>
        LET out == res.output
            pages == doc_builder.pages
            ffs == PositionsOf(out, FF)
        IN /\ Len(out) >= 3
           /\ SubSeq(out, 1, 3) = <<27, 64, 15>>
           /\ CodePositions(out, ESC_RESET) = {1}
           /\ PositionsOf(out, 15) = <<3>>
           /\ Len(ffs) = Len(pages)
           /\ pages = <<>> => out = <<27, 64, 15>>
           /\ pages # <<>> => ffs[Len(ffs)] = Len(out)
           /\ \A k \in 1..Len(pages) :
                 PrintsCells(Segment(out, ffs, k), pages[k])

\* a document of two different pages, the first one empty
C15_Witness ==
    /\ res.op = "Document::render"
    /\ Len(doc_builder.pages) = 2
    /\ doc_builder.pages[1] = PageBuilderNew
    /\ doc_builder.pages[2] # PageBuilderNew
    /\ Len(PositionsOf(res.output, FF)) = 2

\* the style flags of an ESC/P style
HasFlag(style, flag) == IF flag = BOLD THEN bold(style) ELSE underline(style)

\* the columns of row y at which a maximal run of cells carrying `flag`
\* starts; an empty cell carries no flag
RunStarts(cells, y, flag) ==
    {c[1] : c \in {d \in DOMAIN cells :
                     /\ d[2] = y
                     /\ HasFlag(cells[d].style, flag)
                     /\ (d[1] = 0
                         \/ ~HasFlag(GetCell(cells, d[1] - 1, y).style, flag))}}

\* the number of elements of a set of positions that lie between lo and hi
Between(positions, lo, hi) ==
    Cardinality({i \in positions : lo < i /\ i < hi})

\* page k and row y of the g-th row of a document
PageOfRow(g) == ((g - 1) \div PAGE_HEIGHT) + 1
RowOfRow(g) == (g - 1) % PAGE_HEIGHT

\* whether the printer has `flag` on when it reads position i
FlagOnAt(on, off, i) ==
    LET before == {j \in on \cup off : j < i}
    IN /\ before # {}
       /\ (CHOOSE j \in before : \A h \in before : h <= j) \in on

\* the n bytes from position i on, or fewer at the end of the stream
Window(out, i, n) ==
    SubSeq(out, i, IF i + n - 1 <= Len(out) THEN i + n - 1 ELSE Len(out))

\* the off-codes that follow the CR at position i and its LF
ResetAfter(out, i) ==
    LET b == IF Window(out, i + 2, 2) = ESC_BOLD_OFF THEN 2 ELSE 0
        u == IF Window(out, i + 2 + b, 3) = ESC_UNDERLINE_OFF THEN 3 ELSE 0
    IN [bold |-> b > 0, underline |-> u > 0, len |-> b + u]

\* the positions at which the on-codes and the off-codes of `flag` start
OnCodes(out, flag) ==
    CodePositions(out, IF flag = BOLD THEN ESC_BOLD_ON ELSE ESC_UNDERLINE_ON)
OffCodes(out, flag) ==
    CodePositions(out, IF flag = BOLD THEN ESC_BOLD_OFF ELSE ESC_UNDERLINE_OFF)

\* the position of the LF that ends the row before the g-th row of a
\* document, or of the last byte of the init sequence
RowStart(crs, g) == IF g = 1 THEN Len(ESC_RESET) + Len(SI_CONDENSED) ELSE crs[g - 1] + 1

\* the position of the last byte the serializer emits for the g-th row:
\* its LF, or the last off-code of the reset that follows it
RowEnd(out, crs, g) == crs[g] + 1 + ResetAfter(out, crs[g]).len

\* C16, as stated: among the bytes of each row, from after the previous
\* row's CR LF up to the row's own CR LF, the number of on-codes of a flag
\* is the number of maximal runs of cells carrying the flag, and so is the
\* number of off-codes
C16_CodesWithinRowBytes ==
    res.op = "Document::render" =>
        LET out == res.output
            pages == doc_builder.pages
            crs == PositionsOf(out, CR)
        IN /\ Len(crs) = PAGE_HEIGHT * Len(pages)
           /\ \A f \in {BOLD, UNDERLINE}, g \in 1..Len(crs) :
                 LET runs == Cardinality(RunStarts(pages[PageOfRow(g)],
                                                   RowOfRow(g), f))
                 IN /\ Between(OnCodes(out, f), RowStart(crs, g), crs[g]) = runs
                    /\ Between(OffCodes(out, f), RowStart(crs, g), crs[g]) = runs

\* C16, amended: style codes are never redundant.  An on-code of a flag is
\* emitted only where the flag is off and an off-code only where it is on.
\* For each row and each flag, the number of on-codes among the row's
\* bytes, from the end of the reset of the previous row to the row's CR,
\* is the number of maximal runs of cells carrying the flag; the number of
\* off-codes is the same when the off-code that follows the row's CR LF is
\* counted with the row, which is there exactly when the row's last cell
\* carries the flag; before the row's CR LF there is then one off-code
\* fewer than runs
C16_NoRedundantStyleCodes ==
    res.op = "Document::render" =>
        LET out == res.output
            pages == doc_builder.pages
            crs == PositionsOf(out, CR)
        IN /\ Len(crs) = PAGE_HEIGHT * Len(pages)
           /\ \A f \in {BOLD, UNDERLINE} :
                 LET on == OnCodes(out, f)
                     off == OffCodes(out, f)
                 IN /\ \A i \in on : ~FlagOnAt(on, off, i)
                    /\ \A i \in off : FlagOnAt(on, off, i)
                    /\ \A g \in 1..Len(crs) :
                          LET cells == pages[PageOfRow(g)]
                              y == RowOfRow(g)
                              runs == Cardinality(RunStarts(cells, y, f))
                              open == HasFlag(GetCell(cells, PAGE_WIDTH - 1, y).style, f)
                              start == IF g = 1 THEN RowStart(crs, g)
                                       ELSE RowEnd(out, crs, g - 1)
                              end == RowEnd(out, crs, g)
                          IN /\ Between(on, start, crs[g]) = runs
                             /\ Between(on, crs[g], end + 1) = 0
                             /\ Between(off, start, crs[g])
                                    = IF open THEN runs - 1 ELSE runs
                             /\ Between(off, crs[g], end + 1)
                                    = IF open THEN 1 ELSE 0

\* a page whose row 0 ends with five consecutive bold cells (one run, up
\* to the last column), whose row 1 has a cell that is not bold between
\* two bold runs while the underline run goes on, and whose row 2 has one
\* bold run that ends inside the row
C16_Witness ==
    /\ res.op = "Document::render"
    /\ \E k \in 1..Len(doc_builder.pages) :
          LET cells == doc_builder.pages[k]
          IN /\ RunStarts(cells, 0, BOLD) = {155}
             /\ GetCell(cells, 159, 0).style = 3
             /\ RunStarts(cells, 1, BOLD) = {155, 158}
             /\ RunStarts(cells, 1, UNDERLINE) = {155}
             /\ RunStarts(cells, 2, BOLD) = {0}
             /\ GetCell(cells, 2, 2) = EMPTY

\* C17: after each row's CR LF every flag that is still on is turned off:
\* the style state is (off, off) at the first cell of every row and at
\* every form feed, and on the printer's side a flag that is on at a CR is
\* switched off right after the LF, before anything else
C17_StyleOffAtRowStart ==
    res.op = "Document::render" =>
        LET out == res.output
            crs == PositionsOf(out, CR)
            ffs == PositionsOf(out, FF)
            bon == CodePositions(out, ESC_BOLD_ON)
            boff == CodePositions(out, ESC_BOLD_OFF)
            uon == CodePositions(out, ESC_UNDERLINE_ON)
            uoff == CodePositions(out, ESC_UNDERLINE_OFF)
        IN /\ Len(res.states) = Len(doc_builder.pages)
           /\ \A k \in 1..Len(res.states) :
                 /\ Len(res.states[k]) = PAGE_HEIGHT + 1
                 /\ \A j \in 1..(PAGE_HEIGHT + 1) :
                       res.states[k][j] = RenderStateNew
           /\ \A g \in 1..Len(crs) :
                 /\ out[crs[g] + 1] = LF
                 /\ ResetAfter(out, crs[g]).bold = FlagOnAt(bon, boff, crs[g])
                 /\ ResetAfter(out, crs[g]).underline = FlagOnAt(uon, uoff, crs[g])
           /\ \A k \in 1..Len(ffs) :
                 /\ ~FlagOnAt(bon, boff, ffs[k])
                 /\ ~FlagOnAt(uon, uoff, ffs[k])

\* a row whose last cell is bold and underlined: both flags are on at its
\* CR and both off-codes follow its LF
C17_Witness ==
    /\ res.op = "Document::render"
    /\ doc_builder.pages # <<>>
    /\ GetCell(doc_builder.pages[1], 159, 0).style = 3
    /\ ResetAfter(res.output, PositionsOf(res.output, CR)[1])
           = [bold |-> TRUE, underline |-> TRUE, len |-> 5]

\* the rows of a document that contain bold cells
BoldRows(pages) ==
    {g \in 1..(PAGE_HEIGHT * Len(pages)) :
        RunStarts(pages[PageOfRow(g)], RowOfRow(g), BOLD) # {}}

\* C18: for every row that contains bold cells, the bold-off code that
\* closes that row's bold is in the output before that row's CR LF
C18_BoldOffBeforeLineEnd ==
    res.op = "Document::render" =>
        LET out == res.output
            crs == PositionsOf(out, CR)
            bon == CodePositions(out, ESC_BOLD_ON)
            boff == CodePositions(out, ESC_BOLD_OFF)
        IN \A g \in BoldRows(doc_builder.pages) : ~FlagOnAt(bon, boff, crs[g])

\* the columns of row y at which a maximal run of cells carrying `flag` ends
RunEnds(cells, y, flag) ==
    {c[1] : c \in {d \in DOMAIN cells :
                     /\ d[2] = y
                     /\ HasFlag(cells[d].style, flag)
                     /\ (d[1] = PAGE_WIDTH - 1
                         \/ ~HasFlag(GetCell(cells, d[1] + 1, y).style, flag))}}

\* the index, among the data bytes of a document, of the character of the
\* cell in column x of the g-th row: the data bytes are SI, then for each
\* page 51 rows of 160 characters and CR LF, and FF
DataIndex(g, x) ==
    1 + (PageOfRow(g) - 1) * (PAGE_HEIGHT * (PAGE_WIDTH + 2) + 1)
      + RowOfRow(g) * (PAGE_WIDTH + 2) + x + 1

\* C18, amended: the bold-off code that closes a run of bold cells is before
\* the row's CR LF, right after the run's last character, when the run ends
\* before the last cell of the row; when the run reaches the last cell, bold
\* is still on at the row's CR LF and the bold-off code is the two bytes
\* right after it
C18_BoldOffAtLineEnd ==
    res.op = "Document::render" =>
        LET out == res.output
            pages == doc_builder.pages
            crs == PositionsOf(out, CR)
            data == DataPositions(out)
            bon == CodePositions(out, ESC_BOLD_ON)
            boff == CodePositions(out, ESC_BOLD_OFF)
        IN \A g \in BoldRows(pages) :
              \A e \in RunEnds(pages[PageOfRow(g)], RowOfRow(g), BOLD) :
                 IF e = PAGE_WIDTH - 1
                 THEN /\ FlagOnAt(bon, boff, crs[g])
                      /\ Window(out, crs[g], 4) = <<CR, LF>> \o ESC_BOLD_OFF
                 ELSE /\ data[DataIndex(g, e)] + 1 \in boff
                      /\ data[DataIndex(g, e)] < crs[g]

\* a row with two runs of bold cells: one ends before the last cell, the
\* other reaches it
C18_Witness ==
    /\ res.op = "Document::render"
    /\ \E g \in BoldRows(doc_builder.pages) :
          RunEnds(doc_builder.pages[PageOfRow(g)], RowOfRow(g), BOLD)
              = {156, PAGE_WIDTH - 1}

\* the bytes of a page when it is the only page of a document
AloneSegment(page) ==
    LET alone == Document_render(<<page>>).output
    IN Segment(alone, PositionsOf(alone, FF), 1)

\* C19: the bytes of a page depend only on its cells: they are the bytes
\* the page has when it is alone in a document, so two pages with equal
\* cells have equal byte segments, wherever they stand and whatever
\* precedes them
C19_PageBytesDependOnCellsOnly ==
    res.op = "Document::render" =>
        LET out == res.output
            pages == doc_builder.pages
            ffs == PositionsOf(out, FF)
        IN /\ \A k \in 1..Len(pages) :
                 Segment(out, ffs, k) = AloneSegment(pages[k])
           /\ \A i, j \in 1..Len(pages) :
                 pages[i] = pages[j] => Segment(out, ffs, i) = Segment(out, ffs, j)

\* the same page twice in a document; its last cell of row 0 is bold and
\* underlined, so the first copy ends its row 0 with both flags on
C19_Witness ==
    /\ res.op = "Document::render"
    /\ Len(doc_builder.pages) = 2
    /\ doc_builder.pages[1] = doc_builder.pages[2]
    /\ GetCell(doc_builder.pages[1], PAGE_WIDTH - 1, 0).style = 3

----------------------------------------------------------------------------
(* Properties of regions *)

\* C20: Region::new(x, y, w, h) returns InvalidDimensions when w = 0 or
\* h = 0, whatever x and y are; otherwise RegionOutOfBounds when x + w > 160
\* or y + h > 51, also when the sum does not fit in 16 bits; otherwise the
\* region with exactly these fields.  So every region it returns has w > 0,
\* h > 0, x + w <= 160 and y + h <= 51
C20_RegionNew ==
    res.op = "Region::new" =>
        /\ res.result =
              IF res.width = 0 \/ res.height = 0
              THEN InvalidDimensions(res.width, res.height)
              ELSE IF res.x + res.width > PAGE_WIDTH \/ res.y + res.height > PAGE_HEIGHT
              THEN RegionOutOfBounds(res.x, res.y, res.width, res.height)
              ELSE Ok
        /\ IF res.result = Ok
           THEN /\ res.region = Region(res.x, res.y, res.width, res.height)
                /\ res.region.width > 0
                /\ res.region.height > 0
                /\ res.region.x + res.region.width <= PAGE_WIDTH
                /\ res.region.y + res.region.height <= PAGE_HEIGHT
           ELSE res.region = NoRegion

\* x + w does not fit in 16 bits and wraps to a value inside the page,
\* while y + h is inside the page
C20_Witness ==
    /\ res.op = "Region::new"
    /\ res.x + res.width > U16_MAX
    /\ wrapping_add(res.x, res.width) <= PAGE_WIDTH
    /\ res.height > 0
    /\ res.y + res.height <= PAGE_HEIGHT
    /\ res.result = RegionOutOfBounds(res.x, res.y, res.width, res.height)

\* the region invariant
ValidRegion(r) ==
    /\ r.width > 0
    /\ r.height > 0
    /\ r.x + r.width <= PAGE_WIDTH
    /\ r.y + r.height <= PAGE_HEIGHT

\* C21: every region returned by split_vertical, split_horizontal or
\* with_padding on a valid region is valid: width > 0, height > 0,
\* x + width <= 160, y + height <= 51
C21_DerivedRegionsValid ==
    /\ (res.op \in {"split_vertical", "split_horizontal"} /\ res.result = Ok) =>
          (ValidRegion(res.before) => ValidRegion(res.first) /\ ValidRegion(res.second))
    /\ (res.op = "with_padding" /\ res.result = Ok) =>
          (ValidRegion(res.before) => ValidRegion(res.region))

\* the cells of a region
CellsOf(r) ==
    {<<cx, cy>> \in (0..(PAGE_WIDTH - 1)) \X (0..(PAGE_HEIGHT - 1)) :
        /\ r.x <= cx /\ cx < r.x + r.width
        /\ r.y <= cy /\ cy < r.y + r.height}

\* C22: split_vertical(h) fails with InvalidSplit{height, h} exactly when
\* h > height; otherwise top = (x, y, width, h) and bottom = (x, y + h,
\* width, height - h): heights sum to the parent's, and the parts cover the
\* parent's cells with no gap and no overlap.  split_horizontal likewise on
\* the x axis
C22_SplitsExact ==
    /\ res.op = "split_vertical" =>
          LET p == res.before
          IN IF res.size > p.height
             THEN /\ res.result = InvalidSplit(p.height, res.size)
                  /\ res.first = NoRegion /\ res.second = NoRegion
             ELSE /\ res.result = Ok
                  /\ res.first = Region(p.x, p.y, p.width, res.size)
                  /\ res.second = Region(p.x, p.y + res.size, p.width,
                                         p.height - res.size)
                  /\ res.first.height + res.second.height = p.height
                  /\ CellsOf(res.first) \cup CellsOf(res.second) = CellsOf(p)
                  /\ CellsOf(res.first) \cap CellsOf(res.second) = {}
    /\ res.op = "split_horizontal" =>
          LET p == res.before
          IN IF res.size > p.width
             THEN /\ res.result = InvalidSplit(p.width, res.size)
                  /\ res.first = NoRegion /\ res.second = NoRegion
             ELSE /\ res.result = Ok
                  /\ res.first = Region(p.x, p.y, res.size, p.height)
                  /\ res.second = Region(p.x + res.size, p.y,
                                         p.width - res.size, p.height)
                  /\ res.first.width + res.second.width = p.width
                  /\ CellsOf(res.first) \cup CellsOf(res.second) = CellsOf(p)
                  /\ CellsOf(res.first) \cap CellsOf(res.second) = {}

\* a region of height 51 split at 50, and the split at the full height
C22_Witness ==
    /\ res.op = "split_vertical"
    /\ res.before.height = 51
    /\ res.size = 50
    /\ res.result = Ok
    /\ res.second.y = res.before.y + 50
    /\ res.second.height = 1

\* C23: with_padding(top, right, bottom, left) fails exactly when
\* left + right >= width or top + bottom >= height; otherwise it returns
\* (x + left, y + top, width - left - right, height - top - bottom), which
\* lies inside the original region
C23_Padding ==
    res.op = "with_padding" =>
        LET p == res.before
            fails == \/ res.left + res.right >= p.width
                     \/ res.top + res.bottom >= p.height
        IN IF fails
           THEN res.result.kind = "InvalidDimensions" /\ res.region = NoRegion
           ELSE /\ res.result = Ok
                /\ res.region = Region(p.x + res.left, p.y + res.top,
                                       p.width - res.left - res.right,
                                       p.height - res.top - res.bottom)
                /\ CellsOf(res.region) \subseteq CellsOf(p)
                /\ CellsOf(res.region) # {}

\* left + right is 65536, which wraps to 0 in 16 bits: the call fails
C23_Witness ==
    /\ res.op = "with_padding"
    /\ res.left + res.right = U16_MAX + 1
    /\ res.top + res.bottom < res.before.height
    /\ res.result.kind = "InvalidDimensions"

----------------------------------------------------------------------------
(* Properties of a render pass *)

\* the bounding box of the node at `path`: its position summed from the
\* root, and its size
LeafBox(root, path) ==
    <<PathOffset(root, path)[1], PathOffset(root, path)[2],
      NodeAt(root, path).width, NodeAt(root, path).height>>

\* the cells a write of a render pass changed
CellsWritten(w) ==
    IF w.ok THEN Reached(w.position[1], w.position[2], w.text) ELSE {}

\* C29: in one render pass no cell is written by two different leaves: a
\* label writes at most WIDTH cells, all of them inside its bounding box,
\* and the bounding boxes of distinct leaves are disjoint
C29_LeavesWriteDisjointCells ==
    res.op = "render" =>
        LET root == slots[res.slot]
            leaves == TextLeaves(root, <<>>)
        IN /\ \A k \in 1..Len(res.writes) :
                 LET w == res.writes[k]
                     box == LeafBox(root, w.path)
                 IN /\ Cardinality(CellsWritten(w)) <= box[3]
                    /\ \A c \in CellsWritten(w) :
                          /\ box[1] <= c[1] /\ c[1] < box[1] + box[3]
                          /\ box[2] <= c[2] /\ c[2] < box[2] + box[4]
           /\ \A j \in 1..Len(res.writes), k \in 1..Len(res.writes) :
                 j # k => CellsWritten(res.writes[j]) \cap CellsWritten(res.writes[k]) = {}
           /\ \A j \in 1..Len(leaves), k \in 1..Len(leaves) :
                 j # k => ~BoxesIntersect(LeafBox(root, leaves[j]),
                                        LeafBox(root, leaves[k]))

\* a render pass in which two labels side by side in row 0 were written
C29_Witness ==
    /\ res.op = "render"
    /\ res.result = Ok
    /\ Len(res.writes) = 2
    /\ res.writes[1].position = <<0, 0>>
    /\ res.writes[2].position = <<20, 0>>
    /\ CellsWritten(res.writes[1]) = {<<0, 0>>, <<1, 0>>, <<2, 0>>}
    /\ CellsWritten(res.writes[2]) = {<<20, 0>>, <<21, 0>>, <<22, 0>>}

\* the grid after the texts of leaves 1..n of `leaves` were written onto
\* `cells`, each at the position of its leaf summed from the root
RECURSIVE LeavesWritten(_, _, _, _)
LeavesWritten(cells, root, leaves, n) ==
    IF n = 0 THEN cells
    ELSE LET leaf == NodeAt(root, leaves[n])
             at == PathOffset(root, leaves[n])
         IN write_str(LeavesWritten(cells, root, leaves, n - 1),
                      at[1], at[2], leaf.text.s, leaf.style)

\* C30: a failed page.render is not rolled back: after it returns an error
\* the grid of the page builder is the grid before the call with exactly
\* the leaves that precede the failing leaf, in depth-first insertion
\* order, written onto it, and the builder can still be written to and built
C30_FailedRenderKeepsWrites ==
    (res.op = "page.render" /\ res.result.kind \notin {"Ok", "Panic"}) =>
        LET root == slots[res.slot]
            leaves == TextLeaves(root, <<>>)
            failing == FailingLeaves(root, leaves)
            first == CHOOSE f \in failing : \A g \in failing : f <= g
        IN /\ failing # {}
           /\ page_builder = LeavesWritten(res.before, root, leaves, first - 1)
           /\ \A w \in PageChars : ENABLED WriteAt(w.x, w.y, w.ch, w.style)
           /\ ENABLED BuildPage

\* a render onto a page holding a bold 'X' at (1, 0) that wrote "abc" at
\* (0, 0) and then failed at the second leaf
C30_Witness ==
    /\ res.op = "page.render"
    /\ res.result.kind = "OutOfBounds"
    /\ Len(res.writes) = 2
    /\ GetCell(res.before, 1, 0) = [character |-> 88, style |-> BOLD]
    /\ GetCell(page_builder, 0, 0).character = 97
    /\ GetCell(page_builder, 1, 0) = [character |-> 98, style |-> NONE]

----------------------------------------------------------------------------
(* Properties of the grid *)

\* the printable ASCII characters
Printable == 32..126

\* C24: every cell of a grid holds a character in 32..126, an input
\* character outside this range being stored as '?', so every byte the
\* serializer emits for a cell is in 32..126 and is none of the control
\* bytes 1B, 0D, 0A, 0C, 0F
C24_CellsPrintable ==
    /\ \A c \in DOMAIN page_builder : page_builder[c].character \in Printable
    /\ res.op = "write_at" =>
          ((res.x < PAGE_WIDTH /\ res.y < PAGE_HEIGHT) =>
              GetCell(page_builder, res.x, res.y).character
                  = IF res.ch \in Printable THEN res.ch ELSE QUESTION_MARK)
    /\ res.op = "serialize" =>
          LET out == res.output
              seg == Segment(out, PositionsOf(out, FF), 1)
              data == DataPositions(seg)
          IN /\ PrintsCells(seg, res.page)
             /\ \A y \in 0..(PAGE_HEIGHT - 1), x \in 0..(PAGE_WIDTH - 1) :
                   LET b == seg[data[y * (PAGE_WIDTH + 2) + x + 1]]
                   IN b \in Printable /\ b \notin {27, CR, LF, FF, 15}

\* a page serialized after ESC, LF, U+1F600 and FF were written to it:
\* the cells hold '?'
C24_Witness ==
    /\ res.op = "serialize"
    /\ GetCell(res.page, 0, 0) = [character |-> QUESTION_MARK, style |-> BOLD]
    /\ GetCell(res.page, 158, 50).character = QUESTION_MARK
    /\ GetCell(res.page, 159, 50).character = QUESTION_MARK
    /\ GetCell(res.page, 159, 1).character = QUESTION_MARK

\* C25: write_at(x, y, ..) with x < 160 and y < 51 changes cell (x, y) and
\* no other cell, the last write to a cell winning; with x >= 160 or
\* y >= 51 it changes no cell; write_str changes only the cells (x + i, y)
\* with x + i < 160 and y < 51
C25_RawWritesFrame ==
    /\ res.op = "write_at" =>
          LET inside == res.x < PAGE_WIDTH /\ res.y < PAGE_HEIGHT
              touched == DOMAIN page_builder \cup DOMAIN res.before
          IN /\ inside =>
                   /\ GetCell(page_builder, res.x, res.y) = CellNew(res.ch, res.style)
                   /\ \A c \in touched \ {<<res.x, res.y>>} :
                         GetCell(page_builder, c[1], c[2])
                             = GetCell(res.before, c[1], c[2])
             /\ ~inside => page_builder = res.before
             /\ \A c \in DOMAIN page_builder : InsidePage(c)
    /\ res.op = "write_str" =>
          LET reached == IF res.y < PAGE_HEIGHT
                         THEN Reached(res.x, res.y, res.text) ELSE {}
              touched == DOMAIN page_builder \cup DOMAIN res.before
          IN /\ \A c \in reached :
                   GetCell(page_builder, c[1], c[2])
                       = CellNew(res.text[c[1] - res.x + 1], res.style)
             /\ \A c \in touched \ reached :
                   GetCell(page_builder, c[1], c[2])
                       = GetCell(res.before, c[1], c[2])
             /\ \A c \in DOMAIN page_builder : InsidePage(c)

\* 'A' written at (0, 0) over a bold '?' while other cells are set: the
\* last write wins and the other cells stay
C25_Witness ==
    /\ res.op = "write_at"
    /\ res.x = 0 /\ res.y = 0 /\ res.ch = 65
    /\ GetCell(res.before, 0, 0) = [character |-> QUESTION_MARK, style |-> BOLD]
    /\ GetCell(page_builder, 0, 0) = [character |-> 65, style |-> NONE]
    /\ GetCell(page_builder, 159, 50) # EMPTY

\* a write at column 200 on a page that has cells set: nothing changes
C25_WitnessOutside ==
    /\ res.op = "write_at"
    /\ res.x = 200
    /\ res.before # PageBuilderNew
    /\ page_builder = res.before

----------------------------------------------------------------------------
(* Properties of the allocators and of labels *)

\* C7: Column::area(h) with cursor c returns a (WIDTH, h) container at (0, c)
\* and moves the cursor to c+h when c+h <= HEIGHT, and otherwise returns
\* InsufficientSpace{HEIGHT-c, h, "Column"} and leaves the cursor at c
C7_ColumnArea ==
    res.op = "Column::area" =>
        LET c == res.before.current_y
            h == res.required
        IN IF c + h <= column.HEIGHT
           THEN /\ res.result = Ok
                /\ res.widget.kind = "Rect"
                /\ res.widget.width = column.WIDTH
                /\ res.widget.height = h
                /\ res.position = <<0, c>>
                /\ column.current_y = c + h
           ELSE /\ res.result = InsufficientSpace(column.HEIGHT - c, h, "Column")
                /\ column.current_y = c

\* the same statement for the calls in which c+h fits the coordinate type
C7_ColumnAreaNoOverflow ==
    (res.op = "Column::area" /\ res.before.current_y + res.required <= U16_MAX)
        => C7_ColumnArea

\* C8: allocations that sum to exactly the extent all succeed, and every
\* allocation of size >= 1 after them fails with available = 0, for Column
\* and for Row
C8_ExactFillThenRefuse ==
    /\ res.op = "Column::area" =>
          /\ res.granted_before.total + res.required <= column.HEIGHT
                => res.result = Ok
          /\ (res.granted_before.total = column.HEIGHT /\ res.required >= 1)
                => res.result = InsufficientSpace(0, res.required, "Column")
    /\ res.op = "Row::area" =>
          /\ res.granted_before.total + res.required <= row.WIDTH
                => res.result = Ok
          /\ (res.granted_before.total = row.WIDTH /\ res.required >= 1)
                => res.result = InsufficientSpace(0, res.required, "Row")

\* C26: the containers returned by the successful area() calls on one
\* Column (or one Row), added in that order with add_child at the positions
\* returned with them to an initially empty container of the allocator's
\* size, are never refused with ChildExceedsParent or OverlappingChildren
C26_AreasAccepted ==
    (res.op \in {"column_fill", "row_fill"} /\ res.area = Ok)
        => res.result.kind \notin {"ChildExceedsParent", "OverlappingChildren"}

\* C27: the sum of the heights of the areas a Column granted and its
\* cursor never exceed HEIGHT, and the sum of the widths of the areas a Row
\* granted and its cursor never exceed WIDTH
C27_GrantedWithinExtent ==
    /\ granted.column.total <= column.HEIGHT
    /\ column.current_y <= column.HEIGHT
    /\ granted.row.total <= row.WIDTH
    /\ row.current_x <= row.WIDTH

\* C28: every container returned by Column::area, Row::area and
\* Stack::area has a non-zero width and a non-zero height
C28_AreasNonZero ==
    (res.op \in {"column_fill", "row_fill", "Stack::area"} /\ res.area = Ok)
        => (res.widget.width > 0 /\ res.widget.height > 0)

\* the length of a text in bytes
RECURSIVE ByteLen(_, _)
ByteLen(text, n) ==
    IF n = 0 THEN 0
    ELSE ByteLen(text, n - 1)
         + (IF text[n] <= 127 THEN 1 ELSE IF text[n] <= 2047 THEN 2
            ELSE IF text[n] <= 65535 THEN 3 ELSE 4)

\* C9: add_text on a label of width W fails with TextExceedsWidth exactly
\* when the text is longer than W bytes or contains a newline (LF, alone or
\* after CR); otherwise it succeeds and stores the text unchanged
C9_AddTextValidation ==
    res.op = "add_text" =>
        LET bad == \/ ByteLen(res.text, Len(res.text)) > res.width
                   \/ \E i \in 1..Len(res.text) : res.text[i] = LF
        IN /\ bad => /\ res.result.kind = "TextExceedsWidth"
                     /\ slots[res.slot] = NoWidget
           /\ ~bad => /\ res.result = Ok
                      /\ slots[res.slot] = [res.before EXCEPT !.text = Some(res.text)]

\* a text of exactly W = 10 bytes is accepted
C9_Witness ==
    /\ res.op = "add_text"
    /\ res.result = Ok
    /\ res.width = 10
    /\ ByteLen(res.text, Len(res.text)) = 10
    /\ slots[res.slot].text.s = res.text

====
